---- MODULE Spec2Model ----
(***************************************************************************)
(* Client store of the Gitan admin panel: the secret cipher (lib/crypto.ts)*)
(* and the two variants of lib/clients.ts, the Postgres-backed store and   *)
(* the JSON-file store.                                                    *)
(*                                                                         *)
(* Strings are sequences of one-character strings, so that trim,           *)
(* toLowerCase, split and the email pattern are computed, not assumed.     *)
(***************************************************************************)
EXTENDS Integers, Sequences, FiniteSets, TLC

(***************************************************************************)
(* Bounds of the model.                                                    *)
(***************************************************************************)
MaxClock == 1
MaxUuid == 2
MaxNonce == 1
MaxTamper == 1
MaxCalls == 3
MaxCrash == 1
MaxPlainLen == 2
MaxComponents == 4
MaxKeyCalls == 3
MaxDeletes == 3

(***************************************************************************)
(* JavaScript values.                                                      *)
(***************************************************************************)
UNDEF == <<"<undefined>">>
NULL == <<"<null>">>

IsString(v) == v # UNDEF /\ v # NULL

\* typeof v === "string"
typeofString(v) == IsString(v)

\* a ?? b
Coalesce(a, b) == IF a = UNDEF \/ a = NULL THEN b ELSE a

\* !v for a string, undefined or null
Falsy(v) == v = UNDEF \/ v = NULL \/ v = <<>>

UpperCase == <<"A","B","C","D","E","F","G","H","I","J","K","L","M",
               "N","O","P","Q","R","S","T","U","V","W","X","Y","Z">>
LowerCase == <<"a","b","c","d","e","f","g","h","i","j","k","l","m",
               "n","o","p","q","r","s","t","u","v","w","x","y","z">>

UpperToLower ==
    [c \in {UpperCase[i] : i \in DOMAIN UpperCase} |->
        LowerCase[CHOOSE i \in DOMAIN UpperCase : UpperCase[i] = c]]

LowerChar(c) == IF c \in DOMAIN UpperToLower THEN UpperToLower[c] ELSE c

\* String.prototype.toLowerCase
toLowerCase(s) == [i \in DOMAIN s |-> LowerChar(s[i])]

IsSpace(c) == c = " "

SetMin(S) == CHOOSE x \in S : \A y \in S : x <= y
SetMax(S) == CHOOSE x \in S : \A y \in S : x >= y

\* String.prototype.trim
trim(s) ==
    LET keep == {i \in DOMAIN s : ~IsSpace(s[i])}
    IN  IF keep = {} THEN <<>> ELSE SubSeq(s, SetMin(keep), SetMax(keep))

\* input.notes?.trim()
OptTrim(v) == IF IsString(v) THEN trim(v) ELSE UNDEF

\* String.prototype.split(sep) for a one-character separator
RECURSIVE split(_, _)
split(s, sep) ==
    IF \A i \in DOMAIN s : s[i] # sep
    THEN <<s>>
    ELSE LET k == SetMin({i \in DOMAIN s : s[i] = sep})
         IN  <<SubSeq(s, 1, k - 1)>> \o split(SubSeq(s, k + 1, Len(s)), sep)

\* Array.prototype.join(sep)
RECURSIVE join(_, _)
join(parts, sep) ==
    IF Len(parts) = 0 THEN <<>>
    ELSE IF Len(parts) = 1 THEN parts[1]
    ELSE parts[1] \o <<sep>> \o join(Tail(parts), sep)

RECURSIVE SeqSum(_)
SeqSum(s) == IF s = <<>> THEN 0 ELSE Head(s) + SeqSum(Tail(s))

(***************************************************************************)
(* client-options: the enumerated plans and statuses.                      *)
(***************************************************************************)
PLAN_OPTIONS ==
    << <<"S","t","a","r","t","e","r">>,
       <<"G","r","o","w","t","h">>,
       <<"E","n","t","e","r","p","r","i","s","e">>,
       <<"C","u","s","t","o","m">> >>

STATUS_OPTIONS ==
    << <<"A","c","t","i","v","e">>,
       <<"P","e","n","d","i","n","g">>,
       <<"T","r","i","a","l">>,
       <<"C","h","u","r","n"," ","R","i","s","k">>,
       <<"O","f","f","b","o","a","r","d","e","d">> >>

\* option.toLowerCase() of every option
PlanOptionsLower == [i \in DOMAIN PLAN_OPTIONS |-> toLowerCase(PLAN_OPTIONS[i])]
StatusOptionsLower == [i \in DOMAIN STATUS_OPTIONS |-> toLowerCase(STATUS_OPTIONS[i])]

\* options.find(option => option.toLowerCase() === value.trim().toLowerCase()),
\* undefined when nothing matches
FindOption(options, lowered, value) ==
    LET wanted == toLowerCase(trim(value))
        hits == {i \in DOMAIN options : lowered[i] = wanted}
    IN  IF hits = {} THEN UNDEF ELSE options[SetMin(hits)]

\* a normalizePlan that stores what was typed, trimmed
normalizePlanAsTyped(plan) ==
    IF Falsy(plan) THEN PLAN_OPTIONS[1] ELSE trim(plan)

normalizePlan(plan) ==
    IF Falsy(plan) THEN PLAN_OPTIONS[1]
    ELSE Coalesce(FindOption(PLAN_OPTIONS, PlanOptionsLower, plan), PLAN_OPTIONS[1])

normalizeStatus(status) ==
    IF Falsy(status) THEN STATUS_OPTIONS[2]
    ELSE Coalesce(FindOption(STATUS_OPTIONS, StatusOptionsLower, status),
                  STATUS_OPTIONS[2])

(***************************************************************************)
(* The mailbox pattern /^[^\s@]+@[^\s@]+\.[^\s@]+$/ : no white space, one  *)
(* "@" with something before it, and after it a "." that has at least one  *)
(* character on each side.                                                 *)
(***************************************************************************)
MatchesEmailPattern(s) ==
    LET ats == {i \in DOMAIN s : s[i] = "@"}
    IN  /\ \A i \in DOMAIN s : ~IsSpace(s[i])
        /\ Cardinality(ats) = 1
        /\ LET p == SetMin(ats)
           IN  /\ p > 1
               /\ \E q \in DOMAIN s : q > p + 1 /\ q < Len(s) /\ s[q] = "."

EmailOk(email) == ~Falsy(email) /\ MatchesEmailPattern(email)

(***************************************************************************)
(* lib/crypto.ts.  AES-256-GCM is modelled at reduced width: a byte is a   *)
(* number below ByteMod, the key stream is a function of key, nonce and    *)
(* position, the tag is a function of key, nonce and ciphertext, and the   *)
(* base64 text of a buffer has one symbol per byte.                        *)
(***************************************************************************)
B64Alphabet == <<"0","1","2","3">>
ByteMod == Len(B64Alphabet)
Bytes == 0 .. (ByteMod - 1)
Nonces == 0 .. MaxNonce

\* the characters secrets are written in, by UTF-8 code
Charset == <<" ","p","q","r">>

CharCode(c) == (CHOOSE i \in DOMAIN Charset : Charset[i] = c) - 1

\* Buffer.from(value, "utf8") and buffer.toString("utf8")
utf8Encode(s) == [i \in DOMAIN s |-> CharCode(s[i])]
utf8Decode(b) == [i \in DOMAIN b |-> Charset[b[i] + 1]]

\* buffer.toString("base64")
base64Encode(b) == [i \in DOMAIN b |-> B64Alphabet[b[i] + 1]]

IsB64(c) == \E i \in DOMAIN B64Alphabet : B64Alphabet[i] = c

\* Buffer.from(text, "base64"): characters outside the alphabet are skipped
base64Decode(t) ==
    LET kept == SelectSeq(t, IsB64)
    IN  [i \in DOMAIN kept |->
            (CHOOSE k \in DOMAIN B64Alphabet : B64Alphabet[k] = kept[i]) - 1]

\* createHash("sha256").update(secret).digest()
sha256(secret) == (SeqSum(utf8Encode(secret)) + Len(secret)) % ByteMod

KeyStream(key, iv, i) == (key + iv + i) % ByteMod

\* cipher.update(value) ++ cipher.final()
gcmEncrypt(key, iv, plain) ==
    [i \in DOMAIN plain |-> (plain[i] + KeyStream(key, iv, i)) % ByteMod]

\* decipher.update(data) ++ decipher.final(), once the tag has verified
gcmDecrypt(key, iv, data) ==
    [i \in DOMAIN data |-> (data[i] + ByteMod - KeyStream(key, iv, i)) % ByteMod]

\* cipher.getAuthTag()
gcmTag(key, iv, data) == (key + iv + SeqSum(data) + Len(data) + 1) % ByteMod

ConfigError == "CLIENT_ENCRYPTION_KEY is not configured. Update your environment variables."
InvalidPayload == "Invalid encrypted payload."
AuthError == "Unsupported state or unable to authenticate data"

\* a getEncryptionKey that derives the key from the configuration on every
\* call
getEncryptionKeyEveryCall(memo, secret) ==
    IF Falsy(secret) \/ Falsy(trim(secret))
    THEN [ok |-> FALSE, key |-> 0, memo |-> memo]
    ELSE [ok |-> TRUE, key |-> sha256(secret), memo |-> <<sha256(secret)>>]

\* memo is <<>> for null and <<key>> for a memoized key
getEncryptionKey(memo, secret) ==
    IF memo # <<>>
    THEN [ok |-> TRUE, key |-> memo[1], memo |-> memo]
    ELSE IF Falsy(secret) \/ Falsy(trim(secret))
    THEN [ok |-> FALSE, key |-> 0, memo |-> memo]
    ELSE [ok |-> TRUE, key |-> sha256(secret), memo |-> <<sha256(secret)>>]

\* an encryptSecret that ignores what randomBytes returned and always
\* encrypts under the same nonce
encryptSecretFixedIv(memo, secret, iv, value) ==
    LET k == getEncryptionKey(memo, secret)
        data == gcmEncrypt(k.key, 0, utf8Encode(value))
    IN  IF ~k.ok
        THEN [ok |-> FALSE, error |-> ConfigError, payload |-> <<>>, memo |-> k.memo]
        ELSE [ok |-> TRUE, error |-> "",
              payload |-> join(<<base64Encode(<<0>>),
                                 base64Encode(<<gcmTag(k.key, 0, data)>>),
                                 base64Encode(data)>>, "."),
              memo |-> k.memo]

encryptSecret(memo, secret, iv, value) ==
    LET k == getEncryptionKey(memo, secret)
        data == gcmEncrypt(k.key, iv, utf8Encode(value))
    IN  IF ~k.ok
        THEN [ok |-> FALSE, error |-> ConfigError, payload |-> <<>>, memo |-> k.memo]
        ELSE [ok |-> TRUE, error |-> "",
              payload |-> join(<<base64Encode(<<iv>>),
                                 base64Encode(<<gcmTag(k.key, iv, data)>>),
                                 base64Encode(data)>>, "."),
              memo |-> k.memo]

decryptSecret(memo, secret, payload) ==
    LET parts == split(payload, ".")
        ivB64 == IF Len(parts) >= 1 THEN parts[1] ELSE UNDEF
        tagB64 == IF Len(parts) >= 2 THEN parts[2] ELSE UNDEF
        cipherTextB64 == IF Len(parts) >= 3 THEN parts[3] ELSE UNDEF
        k == getEncryptionKey(memo, secret)
        iv == base64Decode(ivB64)
        tag == base64Decode(tagB64)
        data == base64Decode(cipherTextB64)
    IN  IF Falsy(ivB64) \/ Falsy(tagB64) \/ Falsy(cipherTextB64)
        THEN [ok |-> FALSE, error |-> InvalidPayload, value |-> <<>>, memo |-> memo]
        ELSE IF ~k.ok
        THEN [ok |-> FALSE, error |-> ConfigError, value |-> <<>>, memo |-> k.memo]
        ELSE IF Len(iv) # 1 \/ Len(tag) # 1 \/ tag[1] # gcmTag(k.key, iv[1], data)
        THEN [ok |-> FALSE, error |-> AuthError, value |-> <<>>, memo |-> k.memo]
        ELSE [ok |-> TRUE, error |-> "",
              value |-> utf8Decode(gcmDecrypt(k.key, iv[1], data)), memo |-> k.memo]

(***************************************************************************)
(* State.                                                                  *)
(***************************************************************************)
VARIABLES
    variant,             \* "db" or "file": which lib/clients.ts is deployed
    clock,               \* the latest time new Date() has returned
    uuid,                \* number of ids randomUUID() has handed out
    calls,               \* number of store calls started so far
    envSecret,           \* process.env.CLIENT_ENCRYPTION_KEY
    memoizedKey,         \* crypto.ts: <<>> for null, <<key>> once derived
    ensureTablePromise,  \* "null", "pending", "indexing", "resolved", "rejected"
    schema,              \* "none", "table" or "indexed": what the database has
    table,               \* the rows of gitan_clients
    dproc,               \* the requests running against the database variant
    tampered,            \* number of envelopes altered behind the store's back
    file,                \* data/clients.json
    fproc,               \* the requests running against the file variant
    fhist,               \* history of the file variant's completed calls
    last,                \* what the call that returned last gave its caller
    cipher,              \* a direct use of lib/crypto.ts: encrypt, then decrypt
    dash                 \* app/page.tsx: the dashboard, its requests, the store

vars == <<variant, clock, uuid, calls, envSecret, memoizedKey,
          ensureTablePromise, schema, table, dproc, tampered,
          file, fproc, fhist, last, cipher, dash>>

dbVars == <<ensureTablePromise, schema, table, dproc, tampered>>
fileVars == <<file, fproc, fhist>>

DbProcs == {"d1", "d2"}
FileProcs == {"f1", "f2"}

(***************************************************************************)
(* Inputs of the calls.                                                    *)
(***************************************************************************)
EmailA == <<"a","@","x",".","c">>
EmailAUpper == <<" ","A","@","x",".","c">>
EmailB == <<"b","@","x",".","c">>
EmailBUpper == <<"B","@","x",".","c"," ">>
EmailBad == <<"a","@","x">>

NoInput ==
    [id |-> 0, name |-> UNDEF, email |-> UNDEF, password |-> UNDEF,
     notes |-> UNDEF, company |-> UNDEF, phone |-> UNDEF,
     plan |-> UNDEF, status |-> UNDEF]

\* ClientCreateInput values
AddInputs ==
    { [NoInput EXCEPT !.name = <<"n">>, !.email = EmailA, !.password = <<"p">>],
      [NoInput EXCEPT !.name = <<" ","m">>, !.email = EmailAUpper,
                      !.password = <<"q"," ">>, !.notes = <<" ","t">>,
                      !.plan = <<"g","r","o","w","t","h"," ">>,
                      !.status = <<"T","R","I","A","L">>],
      [NoInput EXCEPT !.name = <<"n">>, !.email = EmailB, !.password = <<"p">>,
                      !.company = <<"c">>, !.plan = <<"x">>],
      [NoInput EXCEPT !.name = <<" ">>, !.email = EmailA, !.password = <<"p">>],
      [NoInput EXCEPT !.name = <<"n">>, !.email = EmailBad, !.password = <<"p">>],
      [NoInput EXCEPT !.name = <<"n">>, !.email = EmailB, !.password = <<" ">>],
      \* a request body that leaves a required field out (POST passes the
      \* parsed JSON to addClient as it is)
      [NoInput EXCEPT !.email = EmailA, !.password = <<"p">>],
      [NoInput EXCEPT !.name = <<"n">>, !.password = <<"p">>],
      [NoInput EXCEPT !.name = <<"n">>, !.email = EmailB] }

\* the ids a caller may name; 0 stands for a blank id
CallIds == 0 .. MaxUuid

\* new Date(): the wall clock never runs backwards
Now == clock .. MaxClock

\* ClientUpdateInput values, without the id
UpdatePatches ==
    { NoInput,
      [NoInput EXCEPT !.notes = <<"z"," ">>, !.name = <<" ","k">>,
                      !.plan = <<"c","u","s","t","o","m">>, !.company = <<>>],
      [NoInput EXCEPT !.password = <<"q">>],
      [NoInput EXCEPT !.password = <<" ">>],
      [NoInput EXCEPT !.email = EmailBUpper],
      [NoInput EXCEPT !.name = <<" ">>, !.password = <<" ">>],
      [NoInput EXCEPT !.email = EmailBad] }

UpdateInputs ==
    {[u EXCEPT !.id = i] : u \in UpdatePatches, i \in CallIds \ {0}} \cup {NoInput}

(***************************************************************************)
(* Rows, records and results.                                              *)
(***************************************************************************)
NoRow ==
    [id |-> 0, name |-> <<>>, company |-> NULL, email |-> <<>>, phone |-> NULL,
     plan |-> <<>>, status |-> <<>>, password_ciphertext |-> <<>>,
     notes |-> NULL, created_at |-> 0, updated_at |-> 0]

NoResult ==
    [op |-> "none", input |-> NoInput, error |-> "", client |-> <<>>,
     list |-> <<>>, removed |-> FALSE]

Result(op, input) == [NoResult EXCEPT !.op = op, !.input = input]

Failed(op, input, message) == [Result(op, input) EXCEPT !.error = message]

NameRequired == "Client name is required."
EmailRequired == "A valid email address is required."
PasswordRequired == "A password is required."
DuplicateEmail == "A client with this email already exists."
IdRequired == "Client id is required."
NotFound == "Client not found."
EmptyPassword == "Password cannot be empty."
UnableToSave == "Unable to save client."
UnableToUpdate == "Unable to update client."
TypeErrorUndefinedRow == "TypeError: Cannot read properties of undefined"
TypeErrorTrim == "Cannot read properties of undefined (reading 'trim')"

\* validateEmail: the message thrown, "" when the email passes
validateEmail(email) == IF EmailOk(email) THEN "" ELSE EmailRequired

\* mapRowToClient: <<>> for null, <<record>> otherwise; every throw inside
\* the try block, whatever its cause, ends in the catch block's return null
\* mapRowToClient without its try/catch around decryptSecret
mapRowToClientNoCatch(row, memo, secret) ==
    << [id |-> row.id,
        name |-> row.name,
        company |-> Coalesce(row.company, <<>>),
        email |-> row.email,
        phone |-> Coalesce(row.phone, <<>>),
        plan |-> normalizePlan(row.plan),
        status |-> normalizeStatus(row.status),
        password |-> decryptSecret(memo, secret, row.password_ciphertext).value,
        notes |-> Coalesce(row.notes, <<>>),
        createdAt |-> row.created_at,
        updatedAt |-> row.updated_at] >>

mapRowToClient(row, memo, secret) ==
    LET d == decryptSecret(memo, secret, row.password_ciphertext)
    IN  IF ~d.ok THEN <<>>
        ELSE << [id |-> row.id,
                 name |-> row.name,
                 company |-> Coalesce(row.company, <<>>),
                 email |-> row.email,
                 phone |-> Coalesce(row.phone, <<>>),
                 plan |-> normalizePlan(row.plan),
                 status |-> normalizeStatus(row.status),
                 password |-> d.value,
                 notes |-> Coalesce(row.notes, <<>>),
                 createdAt |-> row.created_at,
                 updatedAt |-> row.updated_at] >>

\* memoizedKey after mapRowToClient(row)
MemoAfterMap(row, memo, secret) ==
    decryptSecret(memo, secret, row.password_ciphertext).memo

(***************************************************************************)
(* Database variant (lib/clients.ts, the Postgres store).                  *)
(*                                                                         *)
(* A call validates its input, awaits ensureClientsTable() and sends its   *)
(* statement.  Nothing the call reads from shared state lies between its   *)
(* start and its statement, so once the table promise has resolved the     *)
(* call and its (first) statement are one step; a call that starts while   *)
(* the promise is pending waits at "ensure".  updateClient sends two       *)
(* statements, and is at "updating" between its SELECT and its UPDATE.     *)
(***************************************************************************)
IdleProc ==
    [pc |-> "idle", op |-> "none", input |-> NoInput, existing |-> NoRow,
     pending |-> NoRow]

Returned(p, res) ==
    /\ dproc' = [dproc EXCEPT ![p] = IdleProc]
    /\ last' = res

\* an ensureClientsTable in which every caller that finds the creation
\* unfinished starts it again
ensureClientsTableEveryCall(promise) ==
    IF promise = "resolved" THEN promise ELSE "pending"

\* ensureClientsTable() up to its first await: the first caller starts the
\* CREATE statements, every caller gets the one promise
ensureClientsTable(promise) == IF promise = "null" THEN "pending" ELSE promise

Awaiting(p, op, input) ==
    /\ dproc' = [dproc EXCEPT ![p] =
                    [IdleProc EXCEPT !.pc = "ensure", !.op = op, !.input = input]]
    /\ ensureTablePromise' = ensureClientsTable(ensureTablePromise)
    /\ UNCHANGED <<last, table, uuid, memoizedKey, clock>>

AfterEnsure(p, op) ==
    /\ variant = "db"
    /\ dproc[p].pc = "ensure"
    /\ dproc[p].op = op
    /\ ensureTablePromise = "resolved"

\* request slots are taken in order: "d2" serves a request only while "d1"
\* is busy with another
CanCall(p) ==
    /\ variant = "db"
    /\ dproc[p].pc = "idle"
    /\ p = "d2" => dproc["d1"].pc # "idle"
    /\ calls < MaxCalls

\* CREATE TABLE IF NOT EXISTS gitan_clients (...)
EnsureCreateTable ==
    /\ variant = "db"
    /\ ensureTablePromise = "pending"
    /\ schema' = IF schema = "none" THEN "table" ELSE schema
    /\ ensureTablePromise' = "indexing"
    /\ UNCHANGED <<variant, dash, cipher, clock, uuid, calls, envSecret, memoizedKey,
                   table, dproc, tampered, fileVars, last>>

\* CREATE UNIQUE INDEX IF NOT EXISTS gitan_clients_email_lower_idx
EnsureCreateIndex ==
    /\ variant = "db"
    /\ ensureTablePromise = "indexing"
    /\ schema' = "indexed"
    /\ ensureTablePromise' = "resolved"
    /\ UNCHANGED <<variant, dash, cipher, clock, uuid, calls, envSecret, memoizedKey,
                   table, dproc, tampered, fileVars, last>>

DatabaseError == "Connection terminated unexpectedly"

\* one of the two CREATE statements fails: the promise is rejected, and
\* stays in ensureTablePromise
EnsureFails ==
    /\ variant = "db"
    /\ ensureTablePromise \in {"pending", "indexing"}
    /\ ensureTablePromise' = "rejected"
    /\ UNCHANGED <<variant, dash, cipher, clock, uuid, calls, envSecret, memoizedKey,
                   schema, table, dproc, tampered, fileVars, last>>

\* await ensureClientsTable() throws in a call that waited for the promise
EnsureRejected(p) ==
    /\ variant = "db"
    /\ dproc[p].pc = "ensure"
    /\ ensureTablePromise = "rejected"
    /\ Returned(p, Failed(dproc[p].op, dproc[p].input, DatabaseError))
    /\ UNCHANGED <<variant, dash, cipher, clock, uuid, calls, envSecret, memoizedKey,
                   ensureTablePromise, schema, table, tampered, fileVars>>

\* a uniqueness check that compares a row with itself as well
UniqueViolationIncludesSelf(rows, row) ==
    \E r \in rows : toLowerCase(r.email) = toLowerCase(row.email)

\* the table without its unique index on LOWER(email)
UniqueViolationNoIndex(rows, row) == FALSE

\* the constraints of gitan_clients: email is UNIQUE and lower(email)
\* carries a unique index; SQLSTATE 23505 when one is hit
UniqueViolation(rows, row) ==
    \E r \in rows :
        /\ r.id # row.id
        /\ \/ r.email = row.email
           \/ toLowerCase(r.email) = toLowerCase(row.email)

\* a SELECT that has lost its WHERE clause
RowOfAny(rows, id) == rows

RowOf(rows, id) == {r \in rows : r.id = id}

\* addClient, lines 146-161: the message thrown, "" when the input passes
AddValidation(input) ==
    IF ~IsString(input.name) \/ ~IsString(input.email) \/ ~IsString(input.password)
    THEN TypeErrorTrim
    ELSE IF Falsy(trim(input.name)) THEN NameRequired
    ELSE IF validateEmail(toLowerCase(trim(input.email))) # ""
    THEN validateEmail(toLowerCase(trim(input.email)))
    ELSE IF Falsy(trim(input.password)) THEN PasswordRequired
    ELSE ""

\* an INSERT that stores the email as typed, trimmed but not lower-cased
InsertRowRawEmail(input, id, ciphertext, now) ==
    [id |-> id,
     name |-> trim(input.name),
     company |-> Coalesce(OptTrim(input.company), NULL),
     email |-> trim(input.email),
     phone |-> Coalesce(OptTrim(input.phone), NULL),
     plan |-> normalizePlan(input.plan),
     status |-> normalizeStatus(input.status),
     password_ciphertext |-> ciphertext,
     notes |-> Coalesce(OptTrim(input.notes), NULL),
     created_at |-> now,
     updated_at |-> now]

\* the row addClient sends in its INSERT
InsertRow(input, id, ciphertext, now) ==
    [id |-> id,
     name |-> trim(input.name),
     company |-> Coalesce(OptTrim(input.company), NULL),
     email |-> toLowerCase(trim(input.email)),
     phone |-> Coalesce(OptTrim(input.phone), NULL),
     plan |-> normalizePlan(input.plan),
     status |-> normalizeStatus(input.status),
     password_ciphertext |-> ciphertext,
     notes |-> Coalesce(OptTrim(input.notes), NULL),
     created_at |-> now,
     updated_at |-> now]

\* addClient from encryptSecret on: INSERT ... RETURNING *, mapRowToClient
InsertClient(p, input) ==
    /\ uuid < MaxUuid
    /\ \E iv \in Nonces, now \in Now :
          LET enc == encryptSecret(memoizedKey, envSecret, iv, trim(input.password))
              row == InsertRow(input, uuid + 1, enc.payload, now)
              client == mapRowToClient(row, enc.memo, envSecret)
          IN  IF ~enc.ok
              THEN /\ Returned(p, Failed("add", input, enc.error))
                   /\ UNCHANGED <<table, uuid, memoizedKey, clock>>
              ELSE IF UniqueViolation(table, row)
              THEN /\ Returned(p, Failed("add", input, DuplicateEmail))
                   /\ memoizedKey' = enc.memo
                   /\ clock' = now
                   /\ UNCHANGED <<table, uuid>>
              ELSE /\ table' = table \cup {row}
                   /\ uuid' = uuid + 1
                   /\ clock' = now
                   /\ memoizedKey' = MemoAfterMap(row, enc.memo, envSecret)
                   /\ IF client = <<>>
                      THEN Returned(p, Failed("add", input, UnableToSave))
                      ELSE Returned(p, [Result("add", input) EXCEPT
                                            !.client = client])

AddClientDb(p) ==
    /\ CanCall(p)
    /\ calls' = calls + 1
    /\ \E input \in AddInputs :
          IF AddValidation(input) # ""
          THEN /\ Returned(p, Failed("add", input, AddValidation(input)))
               /\ UNCHANGED <<ensureTablePromise, table, uuid, memoizedKey, clock>>
          ELSE IF ensureTablePromise = "resolved"
          THEN InsertClient(p, input) /\ UNCHANGED ensureTablePromise
          ELSE Awaiting(p, "add", input)
    /\ UNCHANGED <<variant, dash, cipher, envSecret, schema, tampered, fileVars>>

AddClientDb_Resume(p) ==
    /\ AfterEnsure(p, "add")
    /\ InsertClient(p, dproc[p].input)
    /\ UNCHANGED <<variant, dash, cipher, calls, envSecret, ensureTablePromise, schema,
                   tampered, fileVars>>

\* a removeClient that reports removed whatever the DELETE returned
DeleteClientAlwaysRemoved(p, input) ==
    /\ table' = table \ RowOf(table, input.id)
    /\ Returned(p, [Result("remove", input) EXCEPT !.removed = TRUE])
    /\ UNCHANGED <<uuid, memoizedKey, clock>>

\* DELETE FROM gitan_clients WHERE id = ... RETURNING id
DeleteClient(p, input) ==
    /\ table' = table \ RowOf(table, input.id)
    /\ Returned(p, [Result("remove", input) EXCEPT
                        !.removed = Cardinality(RowOf(table, input.id)) > 0])
    /\ UNCHANGED <<uuid, memoizedKey, clock>>

RemoveClientDb(p) ==
    /\ CanCall(p)
    /\ calls' = calls + 1
    /\ \E id \in CallIds \ {0} :
          IF ensureTablePromise = "resolved"
          THEN DeleteClient(p, [NoInput EXCEPT !.id = id])
               /\ UNCHANGED ensureTablePromise
          ELSE Awaiting(p, "remove", [NoInput EXCEPT !.id = id])
    /\ UNCHANGED <<variant, dash, cipher, envSecret, schema, tampered, fileVars>>

RemoveClientDb_Resume(p) ==
    /\ AfterEnsure(p, "remove")
    /\ DeleteClient(p, dproc[p].input)
    /\ UNCHANGED <<variant, dash, cipher, calls, envSecret, ensureTablePromise, schema,
                   tampered, fileVars>>

\* the orders a SELECT without ORDER BY may return the rows in
RowsAnyOrder(rows) ==
    {s \in [1 .. Cardinality(rows) -> rows] :
        \A i, j \in DOMAIN s : i # j => s[i] # s[j]}

\* the orders ORDER BY created_at DESC may return the rows in
RowsNewestFirst(rows) ==
    {s \in [1 .. Cardinality(rows) -> rows] :
        /\ \A i, j \in DOMAIN s : i # j => s[i] # s[j]
        /\ \A i, j \in DOMAIN s : i < j => s[i].created_at >= s[j].created_at}

RECURSIVE Flatten(_)
Flatten(ss) == IF ss = <<>> THEN <<>> ELSE Head(ss) \o Flatten(Tail(ss))

\* result.rows.map(mapRowToClient).filter(Boolean)
MapRows(rows, memo, secret) ==
    Flatten([i \in DOMAIN rows |-> mapRowToClient(rows[i], memo, secret)])

\* memoizedKey after every row has gone through mapRowToClient
MemoAfterRows(rows, memo, secret) ==
    LET ms == {MemoAfterMap(r, memo, secret) : r \in rows} \ {<<>>}
    IN  IF ms = {} THEN memo ELSE CHOOSE m \in ms : TRUE

\* SELECT * FROM gitan_clients ORDER BY created_at DESC, map, filter
SelectClients(p) ==
    /\ \E rows \in RowsNewestFirst(table) :
          Returned(p, [Result("read", NoInput) EXCEPT
                          !.list = MapRows(rows, memoizedKey, envSecret)])
    /\ memoizedKey' = MemoAfterRows(table, memoizedKey, envSecret)
    /\ UNCHANGED <<table, uuid, clock>>

ReadClientsDb(p) ==
    /\ CanCall(p)
    /\ calls' = calls + 1
    /\ IF ensureTablePromise = "resolved"
       THEN SelectClients(p) /\ UNCHANGED ensureTablePromise
       ELSE Awaiting(p, "read", NoInput)
    /\ UNCHANGED <<variant, dash, cipher, envSecret, schema, tampered, fileVars>>

ReadClientsDb_Resume(p) ==
    /\ AfterEnsure(p, "read")
    /\ SelectClients(p)
    /\ UNCHANGED <<variant, dash, cipher, calls, envSecret, ensureTablePromise, schema,
                   tampered, fileVars>>

\* updateClient, lines 219-248: the message thrown before the UPDATE is
\* sent, "" when the input passes
\* updateClient without its check of a supplied password
UpdateValidationNoPassword(input, existing) ==
    LET name == IF typeofString(input.name) THEN trim(input.name) ELSE existing.name
        email == IF typeofString(input.email)
                 THEN toLowerCase(trim(input.email)) ELSE existing.email
    IN  IF Falsy(name) THEN NameRequired
        ELSE IF validateEmail(email) # "" THEN validateEmail(email)
        ELSE ""

UpdateValidation(input, existing) ==
    LET name == IF typeofString(input.name) THEN trim(input.name) ELSE existing.name
        email == IF typeofString(input.email)
                 THEN toLowerCase(trim(input.email)) ELSE existing.email
    IN  IF Falsy(name) THEN NameRequired
        ELSE IF validateEmail(email) # "" THEN validateEmail(email)
        ELSE IF typeofString(input.password) /\ Falsy(trim(input.password))
        THEN EmptyPassword
        ELSE ""

\* an UPDATE that writes the notes of the input even when it has none
UpdateRowResetsNotes(input, existing, ciphertext, now) ==
    [id |-> existing.id,
     name |-> IF typeofString(input.name) THEN trim(input.name) ELSE existing.name,
     company |-> Coalesce(IF typeofString(input.company)
                          THEN trim(input.company) ELSE existing.company, NULL),
     email |-> IF typeofString(input.email)
               THEN toLowerCase(trim(input.email)) ELSE existing.email,
     phone |-> Coalesce(IF typeofString(input.phone)
                        THEN trim(input.phone) ELSE existing.phone, NULL),
     plan |-> normalizePlan(Coalesce(input.plan, existing.plan)),
     status |-> normalizeStatus(Coalesce(input.status, existing.status)),
     password_ciphertext |-> ciphertext,
     notes |-> Coalesce(OptTrim(input.notes), NULL),
     created_at |-> existing.created_at,
     updated_at |-> now]

\* the values updateClient puts in the SET clause of its UPDATE
UpdateRow(input, existing, ciphertext, now) ==
    [id |-> existing.id,
     name |-> IF typeofString(input.name) THEN trim(input.name) ELSE existing.name,
     company |-> Coalesce(IF typeofString(input.company)
                          THEN trim(input.company) ELSE existing.company, NULL),
     email |-> IF typeofString(input.email)
               THEN toLowerCase(trim(input.email)) ELSE existing.email,
     phone |-> Coalesce(IF typeofString(input.phone)
                        THEN trim(input.phone) ELSE existing.phone, NULL),
     plan |-> normalizePlan(Coalesce(input.plan, existing.plan)),
     status |-> normalizeStatus(Coalesce(input.status, existing.status)),
     password_ciphertext |-> ciphertext,
     notes |-> Coalesce(IF typeofString(input.notes)
                        THEN trim(input.notes) ELSE existing.notes, NULL),
     created_at |-> existing.created_at,
     updated_at |-> now]

\* an UPDATE whose SET clause writes created_at as well
ApplyUpdateTouchesCreated(current, set) == [set EXCEPT !.created_at = set.updated_at]

\* the row as the UPDATE statement leaves it: created_at is not in the SET
\* clause and stays what the table holds
ApplyUpdate(current, set) == [set EXCEPT !.created_at = current.created_at]

ToUpdating(p, input, existing, ciphertext) ==
    \E now \in Now :
        /\ clock' = now
        /\ dproc' = [dproc EXCEPT ![p] =
                 [IdleProc EXCEPT !.pc = "updating", !.op = "update",
                                  !.input = input, !.existing = existing,
                                  !.pending = UpdateRow(input, existing,
                                                        ciphertext, now)]]

\* SELECT * ... WHERE id = trimmedId LIMIT 1, and the code up to the UPDATE
SelectForUpdate(p, input) ==
    LET found == RowOf(table, input.id)
        existing == CHOOSE r \in found : TRUE
    IN  /\ UNCHANGED <<table, uuid>>
        /\ IF found = {}
           THEN /\ Returned(p, Failed("update", input, NotFound))
                /\ UNCHANGED <<memoizedKey, clock>>
           ELSE IF UpdateValidation(input, existing) # ""
           THEN /\ Returned(p, Failed("update", input,
                                      UpdateValidation(input, existing)))
                /\ UNCHANGED <<memoizedKey, clock>>
           ELSE IF ~typeofString(input.password)
           THEN /\ ToUpdating(p, input, existing, existing.password_ciphertext)
                /\ UNCHANGED <<memoizedKey, last>>
           ELSE \E iv \in Nonces :
                  LET enc == encryptSecret(memoizedKey, envSecret, iv,
                                           trim(input.password))
                  IN  IF ~enc.ok
                      THEN /\ Returned(p, Failed("update", input, enc.error))
                           /\ UNCHANGED <<memoizedKey, clock>>
                      ELSE /\ ToUpdating(p, input, existing, enc.payload)
                           /\ memoizedKey' = enc.memo
                           /\ UNCHANGED last

UpdateClient(p) ==
    /\ CanCall(p)
    /\ calls' = calls + 1
    /\ \E input \in UpdateInputs :
          IF input.id = 0
          THEN /\ Returned(p, Failed("update", input, IdRequired))
               /\ UNCHANGED <<ensureTablePromise, table, uuid, memoizedKey, clock>>
          ELSE IF ensureTablePromise = "resolved"
          THEN SelectForUpdate(p, input) /\ UNCHANGED ensureTablePromise
          ELSE Awaiting(p, "update", input)
    /\ UNCHANGED <<variant, dash, cipher, envSecret, schema, tampered, fileVars>>

UpdateClient_Resume(p) ==
    /\ AfterEnsure(p, "update")
    /\ SelectForUpdate(p, dproc[p].input)
    /\ UNCHANGED <<variant, dash, cipher, calls, envSecret, ensureTablePromise, schema,
                   tampered, fileVars>>

\* UPDATE gitan_clients SET ... WHERE id = trimmedId RETURNING *, and
\* mapRowToClient(result.rows[0]); with no row left to update, rows[0] is
\* undefined and mapRowToClient throws a TypeError from its catch block
UpdateClient_Update(p) ==
    /\ variant = "db"
    /\ dproc[p].pc = "updating"
    /\ LET set == dproc[p].pending
           input == dproc[p].input
           found == RowOf(table, set.id)
           current == CHOOSE r \in found : TRUE
           row == ApplyUpdate(current, set)
           client == mapRowToClient(row, memoizedKey, envSecret)
       IN  IF found = {}
           THEN /\ Returned(p, Failed("update", input, TypeErrorUndefinedRow))
                /\ UNCHANGED <<table, memoizedKey>>
           ELSE IF UniqueViolation(table, row)
           THEN /\ Returned(p, Failed("update", input, DuplicateEmail))
                /\ UNCHANGED <<table, memoizedKey>>
           ELSE /\ table' = (table \ found) \cup {row}
                /\ memoizedKey' = MemoAfterMap(row, memoizedKey, envSecret)
                /\ IF client = <<>>
                   THEN Returned(p, Failed("update", input, UnableToUpdate))
                   ELSE Returned(p, [Result("update", input) EXCEPT
                                         !.client = client])
    /\ UNCHANGED <<variant, dash, cipher, clock, uuid, calls, envSecret, ensureTablePromise,
                   schema, tampered, fileVars>>

(***************************************************************************)
(* Environment: a stored envelope may be altered by someone with access to *)
(* the database (one symbol replaced by another).                          *)
(***************************************************************************)
NextSymbol(c) ==
    B64Alphabet[((CHOOSE k \in DOMAIN B64Alphabet : B64Alphabet[k] = c) % ByteMod) + 1]

\* the tag (third character of the envelope) or the last ciphertext byte
TamperPositions(payload) == {3, Len(payload)}

Tamper ==
    /\ variant = "db"
    /\ tampered < MaxTamper
    /\ \E r \in table :
       \E i \in TamperPositions(r.password_ciphertext) :
          /\ IsB64(r.password_ciphertext[i])
          /\ table' = (table \ {r}) \cup
                {[r EXCEPT !.password_ciphertext[i] = NextSymbol(@)]}
    /\ tampered' = tampered + 1
    /\ UNCHANGED <<variant, dash, cipher, clock, uuid, calls, envSecret, memoizedKey,
                   ensureTablePromise, schema, dproc, fileVars, last>>

(***************************************************************************)
(* File variant (lib/clients.ts, the JSON store).                          *)
(*                                                                         *)
(* data/clients.json is "absent", "empty" (opened for writing, nothing     *)
(* written yet), "json" (a complete document) or "torn" (bytes of two      *)
(* writes, or of a cut-off write, that do not parse).  fs.writeFile opens  *)
(* the file with O_TRUNC and then writes the data: two steps.  Once the    *)
(* file exists fs.access cannot fail, so the access check of               *)
(* ensureDataFile is one step with the file operation that follows it.     *)
(* A request is at "idle", at "create_open"/"create_data" while            *)
(* ensureDataFile writes "[]", at "read" before fs.readFile, and at        *)
(* "write_open"/"write_data" inside writeClients.                          *)
(***************************************************************************)
AbsentFile == [kind |-> "absent", items |-> <<>>]
EmptyFile == [kind |-> "empty", items |-> <<>>]
TornFile == [kind |-> "torn", items |-> <<>>]
JsonFile(items) == [kind |-> "json", items |-> items]

IdleFileProc ==
    [pc |-> "idle", op |-> "none", input |-> NoInput, wbuf |-> <<>>,
     res |-> NoResult]

NoHistory == [added |-> {}, removed |-> {}, crashes |-> 0]

\* the bytes of the file after writing `items` at offset 0 over what it holds:
\* a longer document already there leaves its tail behind
Overwrite(f, items) ==
    IF f.kind = "empty" \/ f.kind = "absent" THEN {JsonFile(items)}
    ELSE IF f.kind = "json" /\ (Len(f.items) < Len(items) \/ f.items = items)
    THEN {JsonFile(items)}
    ELSE {JsonFile(items), TornFile}

\* normalizeClient: <<>> for null, <<record>> otherwise
normalizeClient(raw, now) ==
    IF Falsy(raw.name) \/ Falsy(raw.email) \/ Falsy(raw.password) \/ raw.id = 0
    THEN <<>>
    ELSE << [id |-> raw.id,
             name |-> raw.name,
             company |-> Coalesce(raw.company, <<>>),
             email |-> raw.email,
             phone |-> Coalesce(raw.phone, <<>>),
             plan |-> normalizePlan(raw.plan),
             status |-> normalizeStatus(raw.status),
             password |-> raw.password,
             notes |-> Coalesce(raw.notes, <<>>),
             createdAt |-> raw.createdAt,
             updatedAt |-> raw.updatedAt] >>

\* the orders .sort((a, b) => (a.createdAt < b.createdAt ? 1 : -1)) may leave
\* the records in: newest first, records of one instant in any order
SortedNewestFirst(items) ==
    {s \in [DOMAIN items -> {items[i] : i \in DOMAIN items}] :
        /\ \A i, j \in DOMAIN s : i # j => s[i] # s[j]
        /\ \A i, j \in DOMAIN s : i < j => s[i].createdAt >= s[j].createdAt}

\* readClients (file variant) from fs.readFile on: the lists it may return
ParseClients(f, now) ==
    IF f.kind # "json" THEN {<<>>}
    ELSE SortedNewestFirst(
             Flatten([i \in DOMAIN f.items |-> normalizeClient(f.items[i], now)]))

\* the record addClient (file variant) builds
NewClient(input, id, now) ==
    [id |-> id,
     name |-> trim(input.name),
     company |-> OptTrim(input.company),
     email |-> toLowerCase(trim(input.email)),
     phone |-> OptTrim(input.phone),
     plan |-> normalizePlan(input.plan),
     status |-> normalizeStatus(input.status),
     password |-> trim(input.password),
     notes |-> OptTrim(input.notes),
     createdAt |-> now,
     updatedAt |-> now]

\* the duplicate check made against the email as it was typed
EmailTakenRaw(clients, input) ==
    \E i \in DOMAIN clients : clients[i].email = input.email

\* clients.some((client) => client.email === trimmedEmail)
EmailTaken(clients, input) ==
    \E i \in DOMAIN clients : clients[i].email = toLowerCase(trim(input.email))

FReturned(p, res) ==
    /\ fproc' = [fproc EXCEPT ![p] = IdleFileProc]
    /\ last' = res

FCanCall(p) ==
    /\ variant = "file"
    /\ fproc[p].pc = "idle"
    /\ p = "f2" => fproc["f1"].pc # "idle"
    /\ calls < MaxCalls

\* the call goes on from fs.readFile: what it does with the list it read
AfterRead(p, op, input) ==
    \E clients \in ParseClients(file, clock) :
        CASE op = "read" ->
               /\ FReturned(p, [Result("read", input) EXCEPT !.list = clients])
               /\ UNCHANGED <<uuid, clock, fhist>>
          [] op = "add" ->
               IF EmailTaken(clients, input)
               THEN /\ FReturned(p, Failed("add", input, DuplicateEmail))
                    /\ UNCHANGED <<uuid, clock, fhist>>
               ELSE /\ uuid < MaxUuid
                    /\ \E now \in Now :
                         LET newClient == NewClient(input, uuid + 1, now)
                         IN  /\ clock' = now
                             /\ uuid' = uuid + 1
                             /\ fproc' = [fproc EXCEPT ![p] =
                                   [pc |-> "write_open", op |-> op, input |-> input,
                                    wbuf |-> <<newClient>> \o clients,
                                    res |-> [Result("add", input) EXCEPT
                                                !.client = <<newClient>>]]]
                    /\ UNCHANGED <<last, fhist>>
          [] op = "remove" ->
               LET updated == SelectSeq(clients, LAMBDA c : c.id # input.id)
               IN  IF Len(updated) = Len(clients)
                   THEN /\ FReturned(p, Result("remove", input))
                        /\ UNCHANGED <<uuid, clock, fhist>>
                   ELSE /\ fproc' = [fproc EXCEPT ![p] =
                               [pc |-> "write_open", op |-> op, input |-> input,
                                wbuf |-> updated,
                                res |-> [Result("remove", input) EXCEPT
                                            !.removed = TRUE]]]
                        /\ UNCHANGED <<uuid, clock, last, fhist>>

\* a call starts: validation, then readClients(): ensureDataFile, fs.readFile
StartCall(p, op, input) ==
    IF file.kind = "absent"
    THEN /\ fproc' = [fproc EXCEPT ![p] =
                [IdleFileProc EXCEPT !.pc = "create_open", !.op = op,
                                     !.input = input]]
         /\ UNCHANGED <<uuid, clock, last, fhist>>
    ELSE AfterRead(p, op, input)

AddClientFile(p) ==
    /\ FCanCall(p)
    /\ calls' = calls + 1
    /\ \E input \in AddInputs :
          IF AddValidation(input) # ""
          THEN /\ FReturned(p, Failed("add", input, AddValidation(input)))
               /\ UNCHANGED <<uuid, clock, fhist>>
          ELSE StartCall(p, "add", input)
    /\ UNCHANGED <<variant, dash, cipher, envSecret, memoizedKey, dbVars, file>>

RemoveClientFile(p) ==
    /\ FCanCall(p)
    /\ calls' = calls + 1
    /\ \E id \in CallIds \ {0} : StartCall(p, "remove", [NoInput EXCEPT !.id = id])
    /\ UNCHANGED <<variant, dash, cipher, envSecret, memoizedKey, dbVars, file>>

ReadClientsFile(p) ==
    /\ FCanCall(p)
    /\ calls' = calls + 1
    /\ StartCall(p, "read", NoInput)
    /\ UNCHANGED <<variant, dash, cipher, envSecret, memoizedKey, dbVars, file>>

\* ensureDataFile: fs.writeFile(clientsFile, "[]") opens the file
EnsureDataFile_Open(p) ==
    /\ variant = "file"
    /\ fproc[p].pc = "create_open"
    /\ file' = EmptyFile
    /\ fproc' = [fproc EXCEPT ![p].pc = "create_data"]
    /\ UNCHANGED <<variant, dash, cipher, clock, uuid, calls, envSecret, memoizedKey, dbVars,
                   fhist, last>>

\* ensureDataFile: fs.writeFile(clientsFile, "[]") writes its two bytes
EnsureDataFile_Write(p) ==
    /\ variant = "file"
    /\ fproc[p].pc = "create_data"
    /\ file' \in Overwrite(file, <<>>)
    /\ fproc' = [fproc EXCEPT ![p].pc = "read"]
    /\ UNCHANGED <<variant, dash, cipher, clock, uuid, calls, envSecret, memoizedKey, dbVars,
                   fhist, last>>

\* readClients: fs.readFile and the rest of the call up to writeClients
ReadClients_ReadFile(p) ==
    /\ variant = "file"
    /\ fproc[p].pc = "read"
    /\ AfterRead(p, fproc[p].op, fproc[p].input)
    /\ UNCHANGED <<variant, dash, cipher, calls, envSecret, memoizedKey, dbVars, file>>

\* writeClients: fs.writeFile(clientsFile, JSON.stringify(clients)) opens the
\* file, which truncates it
WriteClients_Open(p) ==
    /\ variant = "file"
    /\ fproc[p].pc = "write_open"
    /\ file' = EmptyFile
    /\ fproc' = [fproc EXCEPT ![p].pc = "write_data"]
    /\ UNCHANGED <<variant, dash, cipher, clock, uuid, calls, envSecret, memoizedKey, dbVars,
                   fhist, last>>

\* writeClients: the data is written and the call returns
WriteClients_Write(p) ==
    /\ variant = "file"
    /\ fproc[p].pc = "write_data"
    /\ file' \in Overwrite(file, fproc[p].wbuf)
    /\ FReturned(p, fproc[p].res)
    /\ fhist' = IF fproc[p].op = "add"
                THEN [fhist EXCEPT !.added = @ \cup
                        {[id |-> fproc[p].res.client[1].id,
                          email |-> fproc[p].res.client[1].email]}]
                ELSE [fhist EXCEPT !.removed = @ \cup {fproc[p].input.id}]
    /\ UNCHANGED <<variant, dash, cipher, clock, uuid, calls, envSecret, memoizedKey, dbVars>>

\* the process dies between opening the file and writing its data
Crash(p) ==
    /\ variant = "file"
    /\ fproc[p].pc \in {"create_data", "write_data"}
    /\ fhist.crashes < MaxCrash
    /\ fhist' = [fhist EXCEPT !.crashes = @ + 1]
    /\ fproc' = [fproc EXCEPT ![p] = IdleFileProc]
    /\ UNCHANGED <<variant, dash, cipher, clock, uuid, calls, envSecret, memoizedKey, dbVars,
                   file, last>>

(***************************************************************************)
(* lib/crypto.ts used directly: one secret is encrypted and the envelope   *)
(* is decrypted again, under the same configuration.                       *)
(***************************************************************************)
RECURSIVE StringsUpTo(_)
StringsUpTo(n) ==
    IF n = 0 THEN {<<>>}
    ELSE LET shorter == StringsUpTo(n - 1)
         IN  shorter \cup {Append(t, Charset[i]) : t \in shorter, i \in DOMAIN Charset}

Plaintexts == StringsUpTo(MaxPlainLen)

Passphrases == {<<"p","q">>, <<"r">>}

NoCipher == [stage |-> "none", plain |-> <<>>, iv |-> 0, payload |-> <<>>,
             ok |-> FALSE, error |-> "", value |-> <<>>,
             plain2 |-> <<>>, iv2 |-> 0, payload2 |-> <<>>]

Encrypt ==
    /\ variant = "cipher"
    /\ cipher.stage = "start"
    /\ \E iv \in Nonces :
          LET enc == encryptSecret(memoizedKey, envSecret, iv, cipher.plain)
          IN  /\ memoizedKey' = enc.memo
              /\ cipher' = [cipher EXCEPT
                               !.stage = IF enc.ok THEN "encrypted" ELSE "failed",
                               !.iv = iv,
                               !.payload = enc.payload,
                               !.error = enc.error]
    /\ UNCHANGED <<variant, dash, clock, uuid, calls, envSecret, dbVars, fileVars, last>>

\* a second encryptSecret call in the same process, of the same or of
\* another secret; randomBytes may return any twelve bytes
EncryptAgain ==
    /\ variant = "cipher"
    /\ cipher.stage = "encrypted"
    /\ \E iv \in Nonces, value \in Plaintexts :
          LET enc == encryptSecret(memoizedKey, envSecret, iv, value)
          IN  /\ memoizedKey' = enc.memo
              /\ cipher' = [cipher EXCEPT !.stage = "encrypted2", !.plain2 = value,
                                          !.iv2 = iv, !.payload2 = enc.payload]
    /\ UNCHANGED <<variant, dash, clock, uuid, calls, envSecret, dbVars, fileVars, last>>

Decrypt ==
    /\ variant = "cipher"
    /\ cipher.stage = "encrypted"
    /\ LET dec == decryptSecret(memoizedKey, envSecret, cipher.payload)
       IN  /\ memoizedKey' = dec.memo
           /\ cipher' = [cipher EXCEPT !.stage = "decrypted", !.ok = dec.ok,
                                       !.error = dec.error, !.value = dec.value]
    /\ UNCHANGED <<variant, dash, clock, uuid, calls, envSecret, dbVars, fileVars, last>>

\* payloads decryptSecret may be handed: up to MaxComponents components, each
\* empty or one base64 symbol, joined by "."
PayloadComponents == {<<>>} \cup {<<B64Alphabet[i]>> : i \in DOMAIN B64Alphabet}

Payloads ==
    {join(parts, ".") :
        parts \in UNION {[1 .. n -> PayloadComponents] : n \in 1 .. MaxComponents}}

\* decryptSecret(payload) on a payload that did not come from encryptSecret
\* in this run
DecryptPayload ==
    /\ variant = "cipher"
    /\ cipher.stage = "start"
    /\ \E payload \in Payloads :
          LET dec == decryptSecret(memoizedKey, envSecret, payload)
          IN  /\ memoizedKey' = dec.memo
              /\ cipher' = [cipher EXCEPT !.stage = "opened", !.payload = payload,
                                          !.ok = dec.ok, !.error = dec.error,
                                          !.value = dec.value]
    /\ UNCHANGED <<variant, dash, clock, uuid, calls, envSecret, dbVars, fileVars, last>>

(***************************************************************************)
(* app/page.tsx: the dashboard.  clients, editingId, deletingId and form    *)
(* are the component's state (form holds the id of the record loaded into  *)
(* it); requests are the DELETE requests in flight, each with the          *)
(* editingId its handleDelete closure captured; stored is what the store   *)
(* holds.                                                                  *)
(***************************************************************************)
ClientIds == {"c1", "c2"}

NoId == "null"

NoDash ==
    [clients |-> ClientIds, editingId |-> NoId, deletingId |-> NoId, form |-> NoId,
     requests |-> <<>>, stored |-> ClientIds]

HandleEdit ==
    /\ variant = "dashboard"
    /\ \E id \in dash.clients :
          dash' = [dash EXCEPT !.editingId = id, !.form = id]
    /\ UNCHANGED <<variant, cipher, clock, uuid, calls, envSecret, memoizedKey, dbVars,
                   fileVars, last>>

HandleCancelEdit ==
    /\ variant = "dashboard"
    /\ dash.editingId # NoId
    /\ dash' = [dash EXCEPT !.editingId = NoId, !.form = NoId]
    /\ UNCHANGED <<variant, cipher, clock, uuid, calls, envSecret, memoizedKey, dbVars,
                   fileVars, last>>

\* handleDelete up to its fetch: the Remove button of a listed client is
\* clicked; the handler belongs to the current render and sees its editingId
HandleDelete ==
    /\ variant = "dashboard"
    /\ Len(dash.requests) < MaxDeletes
    /\ \E id \in dash.clients :
          /\ dash.deletingId # id
          /\ dash' = [dash EXCEPT
                        !.deletingId = id,
                        !.requests = Append(@, [id |-> id, editingId |-> dash.editingId,
                                                stage |-> "sent", removed |-> FALSE])]
    /\ UNCHANGED <<variant, cipher, clock, uuid, calls, envSecret, memoizedKey, dbVars,
                   fileVars, last>>

\* DELETE /api/clients?id=...: removeClient, then { removed: true } or 404
DeleteRoute ==
    /\ variant = "dashboard"
    /\ \E i \in DOMAIN dash.requests :
          /\ dash.requests[i].stage = "sent"
          /\ dash' = [dash EXCEPT
                        !.requests[i].stage = "answered",
                        !.requests[i].removed = (dash.requests[i].id \in dash.stored),
                        !.stored = @ \ {dash.requests[i].id}]
    /\ UNCHANGED <<variant, cipher, clock, uuid, calls, envSecret, memoizedKey, dbVars,
                   fileVars, last>>

\* handleDelete from the response on; editingId is the one of the closure
HandleDelete_Response ==
    /\ variant = "dashboard"
    /\ \E i \in DOMAIN dash.requests :
          LET req == dash.requests[i]
              cancel == req.removed /\ req.editingId = req.id
          IN  /\ req.stage = "answered"
              /\ dash' = [dash EXCEPT
                            !.requests[i].stage = "handled",
                            !.clients = IF req.removed THEN @ \ {req.id} ELSE @,
                            !.editingId = IF cancel THEN NoId ELSE @,
                            !.form = IF cancel THEN NoId ELSE @,
                            !.deletingId = NoId]
    /\ UNCHANGED <<variant, cipher, clock, uuid, calls, envSecret, memoizedKey, dbVars,
                   fileVars, last>>

(***************************************************************************)
(* Specifications.                                                         *)
(***************************************************************************)
StoreInit ==
    /\ clock = 0
    /\ uuid = 0
    /\ calls = 0
    /\ memoizedKey = <<>>
    /\ ensureTablePromise = "null"
    /\ schema = "none"
    /\ table = {}
    /\ dproc = [p \in DbProcs |-> IdleProc]
    /\ tampered = 0
    /\ file = AbsentFile
    /\ fproc = [p \in FileProcs |-> IdleFileProc]
    /\ fhist = NoHistory
    /\ last = NoResult
    /\ dash = NoDash

Init ==
    /\ variant \in {"db", "file"}
    /\ envSecret = <<"p","q">>
    /\ cipher = NoCipher
    /\ StoreInit

Next ==
    \/ EnsureCreateTable
    \/ EnsureCreateIndex
    \/ \E p \in DbProcs : AddClientDb(p)
    \/ \E p \in DbProcs : AddClientDb_Resume(p)
    \/ \E p \in DbProcs : RemoveClientDb(p)
    \/ \E p \in DbProcs : RemoveClientDb_Resume(p)
    \/ \E p \in DbProcs : ReadClientsDb(p)
    \/ \E p \in DbProcs : ReadClientsDb_Resume(p)
    \/ \E p \in DbProcs : UpdateClient(p)
    \/ \E p \in DbProcs : UpdateClient_Resume(p)
    \/ \E p \in DbProcs : UpdateClient_Update(p)
    \/ \E p \in FileProcs : AddClientFile(p)
    \/ \E p \in FileProcs : RemoveClientFile(p)
    \/ \E p \in FileProcs : ReadClientsFile(p)
    \/ \E p \in FileProcs : EnsureDataFile_Open(p)
    \/ \E p \in FileProcs : EnsureDataFile_Write(p)
    \/ \E p \in FileProcs : ReadClients_ReadFile(p)
    \/ \E p \in FileProcs : WriteClients_Open(p)
    \/ \E p \in FileProcs : WriteClients_Write(p)
    \/ \E p \in FileProcs : Crash(p)

\* the store, in either variant
Spec == Init /\ [][Next]_vars

\* the database variant with an intruder who alters stored envelopes
InitTamper ==
    /\ variant = "db"
    /\ envSecret = <<"p","q">>
    /\ cipher = NoCipher
    /\ StoreInit

NextTamper ==
    \/ EnsureCreateTable
    \/ EnsureCreateIndex
    \/ \E p \in DbProcs : AddClientDb(p)
    \/ \E p \in DbProcs : AddClientDb_Resume(p)
    \/ \E p \in DbProcs : RemoveClientDb(p)
    \/ \E p \in DbProcs : RemoveClientDb_Resume(p)
    \/ \E p \in DbProcs : ReadClientsDb(p)
    \/ \E p \in DbProcs : ReadClientsDb_Resume(p)
    \/ \E p \in DbProcs : UpdateClient(p)
    \/ \E p \in DbProcs : UpdateClient_Resume(p)
    \/ \E p \in DbProcs : UpdateClient_Update(p)
    \/ Tamper

SpecTamper == InitTamper /\ [][NextTamper]_vars

\* the database variant in a process started without a usable
\* CLIENT_ENCRYPTION_KEY, on a database that holds a record written by an
\* earlier process that had one
MissingSecrets == {UNDEF, <<>>, <<" ">>}

EarlierRow ==
    InsertRow([NoInput EXCEPT !.name = <<"n">>, !.email = EmailA,
                              !.password = <<"p">>],
              1, encryptSecret(<<>>, <<"p","q">>, 0, <<"p">>).payload, 0)

InitNoKey ==
    /\ variant = "db"
    /\ envSecret \in MissingSecrets
    /\ cipher = NoCipher
    /\ clock = 0
    /\ uuid = 1
    /\ calls = 0
    /\ memoizedKey = <<>>
    /\ ensureTablePromise = "null"
    /\ schema = "indexed"
    /\ table = {EarlierRow}
    /\ dproc = [p \in DbProcs |-> IdleProc]
    /\ tampered = 0
    /\ file = AbsentFile
    /\ fproc = [p \in FileProcs |-> IdleFileProc]
    /\ fhist = NoHistory
    /\ last = NoResult
    /\ dash = NoDash

NextNoKey ==
    \/ EnsureCreateTable
    \/ EnsureCreateIndex
    \/ \E p \in DbProcs : AddClientDb(p)
    \/ \E p \in DbProcs : AddClientDb_Resume(p)
    \/ \E p \in DbProcs : RemoveClientDb(p)
    \/ \E p \in DbProcs : RemoveClientDb_Resume(p)
    \/ \E p \in DbProcs : ReadClientsDb(p)
    \/ \E p \in DbProcs : ReadClientsDb_Resume(p)
    \/ \E p \in DbProcs : UpdateClient(p)
    \/ \E p \in DbProcs : UpdateClient_Resume(p)
    \/ \E p \in DbProcs : UpdateClient_Update(p)

SpecNoKey == InitNoKey /\ [][NextNoKey]_vars

\* the cipher on its own
InitCipher ==
    /\ variant = "cipher"
    /\ envSecret \in Passphrases
    /\ cipher \in {[NoCipher EXCEPT !.stage = "start", !.plain = s] : s \in Plaintexts}
    /\ StoreInit

NextCipher == Encrypt \/ EncryptAgain \/ Decrypt \/ DecryptPayload

SpecCipher == InitCipher /\ [][NextCipher]_vars

\* getEncryptionKey over the life of one process whose configuration may
\* change: the log holds the key every successful call returned with the
\* passphrase configured at that moment, and counts the derivations and the
\* failed calls
NoKeyLog == [stage |-> "keys", returned |-> <<>>, derived |-> 0, failed |-> 0]

Secrets == Passphrases \cup MissingSecrets

GetEncryptionKey ==
    /\ variant = "keys"
    /\ calls < MaxKeyCalls
    /\ calls' = calls + 1
    /\ LET k == getEncryptionKey(memoizedKey, envSecret)
       IN  /\ memoizedKey' = k.memo
           /\ cipher' = IF k.ok
                        THEN [cipher EXCEPT
                                !.returned = Append(@, [key |-> k.key,
                                                        secret |-> envSecret]),
                                !.derived = IF memoizedKey = <<>> THEN @ + 1 ELSE @]
                        ELSE [cipher EXCEPT !.failed = @ + 1]
    /\ UNCHANGED <<variant, dash, clock, uuid, envSecret, dbVars, fileVars, last>>

\* process.env.CLIENT_ENCRYPTION_KEY is assigned, or deleted, while the
\* process runs
SetSecret ==
    /\ variant = "keys"
    /\ \E s \in Secrets \ {envSecret} : envSecret' = s
    /\ UNCHANGED <<variant, dash, cipher, clock, uuid, calls, memoizedKey, dbVars, fileVars,
                   last>>

InitKeys ==
    /\ variant = "keys"
    /\ envSecret \in Secrets
    /\ cipher = NoKeyLog
    /\ StoreInit

NextKeys == GetEncryptionKey \/ SetSecret

SpecKeys == InitKeys /\ [][NextKeys]_vars

\* app/api/clients/route.ts.  message.includes("required"), over the
\* messages the store functions can throw
IncludesRequired(message) ==
    message \in {NameRequired, EmailRequired, PasswordRequired, IdRequired}

\* the status GET, POST, DELETE or PATCH answers with when the store call
\* it made ended as r
RouteStatus(r) ==
    CASE r.op = "read" -> IF r.error = "" THEN 200 ELSE 500
      [] r.op = "add" -> IF r.error = "" THEN 201 ELSE 400
      [] r.op = "remove" ->
            IF r.error # "" THEN 500 ELSE IF ~r.removed THEN 404 ELSE 200
      [] r.op = "update" ->
            IF r.error = "" THEN 200
            ELSE IF r.error = NotFound THEN 404
            ELSE IF IncludesRequired(r.error) THEN 400
            ELSE 422
      [] OTHER -> 0

\* the dashboard after loadClients has shown the stored clients
InitDash ==
    /\ variant = "dashboard"
    /\ envSecret = <<"p","q">>
    /\ cipher = NoCipher
    /\ StoreInit

NextDash ==
    \/ HandleEdit
    \/ HandleCancelEdit
    \/ HandleDelete
    \/ DeleteRoute
    \/ HandleDelete_Response

SpecDash == InitDash /\ [][NextDash]_vars

\* the store on a database whose CREATE statements may fail
NextEnsure ==
    \/ Next
    \/ EnsureFails
    \/ \E p \in DbProcs : EnsureRejected(p)

SpecEnsure == Init /\ [][NextEnsure]_vars

\* a clients.json that was edited by hand: a complete record, and an element
\* without an id, which normalizeClient skips
LegacyItems ==
    << NewClient([NoInput EXCEPT !.name = <<"n">>, !.email = EmailA,
                                 !.password = <<"p">>], 1, 0),
       [NewClient([NoInput EXCEPT !.name = <<"m">>, !.email = EmailB,
                                  !.password = <<"q">>], 0, 0) EXCEPT !.id = 0] >>

\* the file variant started on that document, or on a copy of it that
\* JSON.parse rejects
InitLegacy ==
    /\ variant = "file"
    /\ envSecret = <<"p","q">>
    /\ cipher = NoCipher
    /\ dash = NoDash
    /\ clock = 0
    /\ uuid = 1
    /\ calls = 0
    /\ memoizedKey = <<>>
    /\ ensureTablePromise = "null"
    /\ schema = "none"
    /\ table = {}
    /\ dproc = [p \in DbProcs |-> IdleProc]
    /\ tampered = 0
    /\ file \in {JsonFile(LegacyItems), [TornFile EXCEPT !.items = LegacyItems]}
    /\ fproc = [p \in FileProcs |-> IdleFileProc]
    /\ fhist = NoHistory
    /\ last = NoResult

NextLegacy ==
    \/ \E p \in FileProcs : AddClientFile(p)
    \/ \E p \in FileProcs : RemoveClientFile(p)
    \/ \E p \in FileProcs : ReadClientsFile(p)
    \/ \E p \in FileProcs : WriteClients_Open(p)
    \/ \E p \in FileProcs : WriteClients_Write(p)
    \/ \E p \in FileProcs : Crash(p)

SpecLegacy == InitLegacy /\ [][NextLegacy]_vars

(***************************************************************************)
(* Properties.                                                             *)
(***************************************************************************)
\* an email as the store compares it: trimmed, lower case
NormEmail(e) == toLowerCase(trim(e))

\* the envelope is one encryptSecret produces for value under the current key
Seals(payload, value) ==
    \E iv \in Bytes : encryptSecret(memoizedKey, envSecret, iv, value).payload = payload

\* the envelope is one encryptSecret produces for some non-empty secret
Authentic(payload) == \E v \in Plaintexts \ {<<>>} : Seals(payload, v)

\* three non-empty base64 components joined by "."
IsEnvelope(s) ==
    LET parts == split(s, ".")
    IN  /\ Len(parts) = 3
        /\ \A k \in 1..3 : parts[k] # <<>> /\ \A i \in DOMAIN parts[k] : IsB64(parts[k][i])

\* this step is the return of a database call of the given operation
DbCompletes(op) ==
    /\ variant = "db"
    /\ last'.op = op
    /\ \/ calls' = calls + 1 /\ dproc' = dproc
       \/ \E p \in DbProcs :
             dproc[p].pc # "idle" /\ dproc[p].op = op /\ dproc'[p].pc = "idle"

\* this step is the return of a file call that has written nothing
FileCompletesUnwritten(op) ==
    /\ variant = "file"
    /\ last'.op = op
    /\ \/ calls' = calls + 1 /\ fproc' = fproc
       \/ \E p \in FileProcs :
             fproc[p].pc = "read" /\ fproc[p].op = op /\ fproc'[p].pc = "idle"

\* C1: in both variants no two stored records ever have emails that are
\* equal after trimming and lower-casing, whatever the interleaving of calls.
C1_EmailsUnique ==
    /\ \A r1, r2 \in table :
          r1 # r2 => NormEmail(r1.email) # NormEmail(r2.email)
    /\ file.kind = "json" =>
          \A i, j \in DOMAIN file.items :
              i # j => NormEmail(file.items[i].email) # NormEmail(file.items[j].email)

\* two records are stored and a call has just been refused for its email
C1_Witness ==
    /\ variant = "db"
    /\ Cardinality(table) = 2
    /\ last.error = DuplicateEmail

\* C2: the store never holds a plain-text password: every stored secret, in
\* a table row or in a record of the JSON document, is an envelope of three
\* base64 components that decrypts under the key.
C2_OnlyEnvelopesStored ==
    /\ \A r \in table :
          /\ IsEnvelope(r.password_ciphertext)
          /\ decryptSecret(<<>>, envSecret, r.password_ciphertext).ok
    /\ file.kind = "json" =>
          \A i \in DOMAIN file.items :
              /\ IsEnvelope(file.items[i].password)
              /\ decryptSecret(<<>>, envSecret, file.items[i].password).ok

\* a file call is between its read of the document and the end of its write
InReadModifyWrite(p) == fproc[p].pc \in {"write_open", "write_data"}

\* C3: in the file variant at most one request at a time is between reading
\* the document and finishing the write of its replacement.
C3_MutualExclusion ==
    \A p, q \in FileProcs :
        p # q => ~(InReadModifyWrite(p) /\ InReadModifyWrite(q))

\* C4: when the only calls made on the file store are addClient calls, each
\* with its own email, each has returned its record and none is still
\* running, the document holds exactly the records that were returned, one
\* for each call.
C4_EveryAddKept ==
    ( /\ variant = "file"
      /\ calls = Cardinality(fhist.added)
      /\ \A p \in FileProcs : fproc[p].pc = "idle"
      /\ fhist.crashes = 0
      /\ fhist.removed = {}
      /\ fhist.added # {}
      /\ \A a, b \in fhist.added : a # b => a.email # b.email )
    => /\ file.kind = "json"
       /\ Len(file.items) = Cardinality(fhist.added)
       /\ \A a \in fhist.added :
             \E i \in DOMAIN file.items :
                 file.items[i].id = a.id /\ file.items[i].email = a.email

\* C5: once a document has been written, the file at the document path is a
\* complete JSON document at every instant, never an empty or a half-written
\* one, also while a write is under way or after a crash during a write.
C5_DocumentAlwaysComplete ==
    (fhist.added # {} \/ fhist.removed # {}) => file.kind = "json"

\* C6: decrypting what encryptSecret returned for s gives s back, for every
\* string s it accepts, under an unchanged key.
C6_RoundTrip ==
    cipher.stage = "decrypted" => cipher.ok /\ cipher.value = cipher.plain

BlankPassword(input) == typeofString(input.password) /\ trim(input.password) = <<>>

\* the name and the email of the input, where supplied, pass validation
SuppliedNameEmailValid(input) ==
    /\ typeofString(input.name) => trim(input.name) # <<>>
    /\ typeofString(input.email) => EmailOk(NormEmail(input.email))

\* C8: an updateClient call without a password writes back the envelope it
\* read and returns the password sealed in it; a call whose password is
\* blank fails and changes nothing, and it fails with "Password cannot be
\* empty." whenever the record exists and the supplied name and email are
\* valid (the checks the code makes before it looks at the password).
C8_PasswordOmittedOrBlank ==
    [][/\ \A p \in DbProcs :
             ( /\ variant = "db"
               /\ dproc[p].pc = "updating"
               /\ dproc'[p].pc = "idle"
               /\ ~typeofString(dproc[p].input.password) )
             => IF last'.error = ""
                THEN /\ \A r \in RowOf(table', dproc[p].input.id) :
                           r.password_ciphertext =
                               dproc[p].existing.password_ciphertext
                     /\ Len(last'.client) = 1
                     /\ Seals(dproc[p].existing.password_ciphertext,
                              last'.client[1].password)
                ELSE table' = table
       /\ (DbCompletes("update") /\ BlankPassword(last'.input))
             => /\ last'.error # ""
                /\ table' = table
                /\ ( /\ RowOf(table, last'.input.id) # {}
                     /\ SuppliedNameEmailValid(last'.input) )
                   => last'.error = EmptyPassword]_vars

\* a call without a password has changed the notes of a record, and a call
\* with a blank password has just been refused
C8_Witness ==
    /\ last.op = "update"
    /\ last.error = EmptyPassword
    /\ \E r \in table : r.notes = <<"z">>

\* the document the file holds has a record with the email of the input
FileHoldsEmail(input) ==
    /\ file.kind = "json"
    /\ \E i \in DOMAIN file.items :
          NormEmail(file.items[i].email) = NormEmail(input.email)

\* C9: an addClient call with otherwise valid input whose email, ignoring
\* case and surrounding white space, is that of a record the call finds in
\* the store fails with "A client with this email already exists." and
\* leaves the store as it was.
C9_DuplicateEmailRefused ==
    [][/\ ( /\ DbCompletes("add")
            /\ AddValidation(last'.input) = ""
            /\ \E r \in table : NormEmail(r.email) = NormEmail(last'.input.email) )
          => last'.error = DuplicateEmail /\ table' = table
       /\ ( /\ FileCompletesUnwritten("add")
            /\ AddValidation(last'.input) = ""
            /\ FileHoldsEmail(last'.input) )
          => last'.error = DuplicateEmail /\ file' = file
       /\ \A p \in FileProcs :
             ( /\ variant = "file"
               /\ fproc[p].pc \in {"idle", "read"}
               /\ fproc'[p].pc = "write_open"
               /\ fproc'[p].op = "add" )
             => ~FileHoldsEmail(fproc'[p].input)]_vars

\* an add whose email differs from a stored one in case and white space only
\* has been refused
C9_Witness ==
    /\ last.op = "add"
    /\ last.error = DuplicateEmail
    /\ last.input.email = EmailAUpper
    /\ \/ \E r \in table : r.email = EmailA
       \/ file.kind = "json" /\ \E i \in DOMAIN file.items : file.items[i].email = EmailA

\* C10: a successful updateClient leaves every other record as it was, and
\* in the record it names every field the input does not supply keeps the
\* value the call read; id and createdAt never change.
C10_OnlySuppliedFieldsChange ==
    [][\A p \in DbProcs :
          ( /\ variant = "db"
            /\ dproc[p].pc = "updating"
            /\ dproc'[p].pc = "idle"
            /\ last'.error = "" )
          => LET input == dproc[p].input
                 existing == dproc[p].existing
             IN  /\ \A r \in table : r.id # input.id => r \in table'
                 /\ \A r \in table' : r.id # input.id => r \in table
                 /\ Cardinality(RowOf(table', input.id)) = 1
                 /\ \A r \in RowOf(table', input.id) :
                       /\ r.created_at = existing.created_at
                       /\ \A c \in RowOf(table, input.id) :
                             r.created_at = c.created_at
                       /\ ~typeofString(input.name) => r.name = existing.name
                       /\ ~typeofString(input.email) => r.email = existing.email
                       /\ ~typeofString(input.company) => r.company = existing.company
                       /\ ~typeofString(input.phone) => r.phone = existing.phone
                       /\ ~typeofString(input.notes) => r.notes = existing.notes
                       /\ ~typeofString(input.password) =>
                              r.password_ciphertext = existing.password_ciphertext
                       /\ ~IsString(input.plan) => r.plan = existing.plan
                       /\ ~IsString(input.status) => r.status = existing.status
                       /\ r.updated_at >= existing.updated_at]_vars

\* an update that supplied notes, name, plan and company, and nothing else,
\* has succeeded next to another record
C10_Witness ==
    /\ last.op = "update"
    /\ last.error = ""
    /\ last.input.notes = <<"z"," ">>
    /\ ~typeofString(last.input.email)
    /\ Len(last.client) = 1
    /\ last.client[1].notes = <<"z">>
    /\ Cardinality(table) = 2

\* the records of the document as readClients hands them to its caller
RecordsRead(f) ==
    Flatten([i \in DOMAIN f.items |-> normalizeClient(f.items[i], 0)])

\* C11: removeClient of an id the store does not hold returns removed=false
\* without an error and leaves the store as it was; removeClient of an id the
\* store holds returns removed=true and takes exactly that record away, every
\* other record staying as it was (database: the table before and after the
\* DELETE; file: the list the call read and the list it writes back).
C11_RemoveExactlyThatRecord ==
    [][/\ DbCompletes("remove") =>
             /\ last'.error = ""
             /\ last'.removed = (RowOf(table, last'.input.id) # {})
             /\ table' = {r \in table : r.id # last'.input.id}
             /\ Cardinality(table') =
                    Cardinality(table) - (IF last'.removed THEN 1 ELSE 0)
       /\ FileCompletesUnwritten("remove") =>
             /\ last'.error = ""
             /\ ~last'.removed
             /\ file' = file
             /\ \A i \in DOMAIN file.items : file.items[i].id # last'.input.id
       /\ \A p \in FileProcs :
             ( /\ variant = "file"
               /\ fproc[p].pc \in {"idle", "read"}
               /\ fproc'[p].pc = "write_open"
               /\ fproc'[p].op = "remove" )
             => LET id == fproc'[p].input.id
                    kept == SelectSeq(RecordsRead(file), LAMBDA c : c.id # id)
                IN  /\ Len(fproc'[p].wbuf) = Len(RecordsRead(file)) - 1
                    /\ {fproc'[p].wbuf[i] : i \in DOMAIN fproc'[p].wbuf}
                           = {kept[i] : i \in DOMAIN kept}
                    /\ fproc'[p].res.removed
                    /\ fproc'[p].res.error = ""
       /\ \A p \in FileProcs :
             ( /\ variant = "file"
               /\ fproc[p].pc = "write_data"
               /\ fproc[p].op = "remove"
               /\ fproc'[p].pc = "idle"
               /\ fhist'.crashes = fhist.crashes )
             => /\ last'.removed
                /\ last'.error = ""
                /\ file.kind = "empty" => file' = JsonFile(fproc[p].wbuf)]_vars

\* a record was created and removed, and the same remove made again has just
\* returned removed=false
C11_Witness ==
    /\ variant = "db"
    /\ last.op = "remove"
    /\ last.error = ""
    /\ ~last.removed
    /\ last.input.id = 1
    /\ uuid >= 1
    /\ RowOf(table, 1) = {}

\* the option a supplied value stands for: the one equal to it after trimming
\* and ignoring case, the fallback when there is none or nothing was supplied
OptionFor(options, fallback, value) ==
    IF IsString(value)
       /\ \E k \in DOMAIN options : toLowerCase(options[k]) = toLowerCase(trim(value))
    THEN options[CHOOSE k \in DOMAIN options :
                     toLowerCase(options[k]) = toLowerCase(trim(value))]
    ELSE fallback

Starter == PLAN_OPTIONS[1]
Pending == STATUS_OPTIONS[2]

\* an optional text as a read returns it: trimmed, "" when it was not supplied
TextRead(v) == IF IsString(v) THEN trim(v) ELSE <<>>

\* the record carries the input as addClient normalises it
CarriesNormalised(rec, input) ==
    /\ rec.name = trim(input.name)
    /\ rec.email = toLowerCase(trim(input.email))
    /\ rec.password = trim(input.password)
    /\ rec.company = TextRead(input.company)
    /\ rec.phone = TextRead(input.phone)
    /\ rec.notes = TextRead(input.notes)
    /\ rec.plan = OptionFor(PLAN_OPTIONS, Starter, input.plan)
    /\ rec.status = OptionFor(STATUS_OPTIONS, Pending, input.status)

\* the record carries every field the input supplies exactly as supplied
CarriesVerbatim(rec, input) ==
    /\ rec.name = input.name
    /\ rec.email = input.email
    /\ rec.password = input.password
    /\ IsString(input.company) => rec.company = input.company
    /\ IsString(input.phone) => rec.phone = input.phone
    /\ IsString(input.notes) => rec.notes = input.notes
    /\ IsString(input.plan) => rec.plan = input.plan
    /\ IsString(input.status) => rec.status = input.status

\* the lists a readClients made in this state of the database may return
ReadsNow ==
    {MapRows(rows, memoizedKey, envSecret) : rows \in RowsNewestFirst(table)}

\* addClient of the database variant has just returned a record
AddJustSucceeded ==
    /\ variant = "db"
    /\ last.op = "add"
    /\ last.error = ""
    /\ Len(last.client) = 1

\* C12 (as amended): after addClient(input) succeeds in the database variant,
\* readClients returns a record with the new id that carries the input as
\* addClient normalises it: name, email, password and the optional texts
\* trimmed, the email in lower case, plan and status replaced by the option
\* they stand for (Starter / Pending when there is none), and "" for an
\* optional text that was not supplied. The password comes back in plain text.
C12_AddReadRoundTripNormalised ==
    AddJustSucceeded =>
        \A list \in ReadsNow :
            \E i \in DOMAIN list :
                /\ list[i].id = last.client[1].id
                /\ CarriesNormalised(list[i], last.input)

\* C12 (as stated): after addClient(input) succeeds, readClients returns a
\* record with the new id whose every field equals the field of the input.
C12_AddReadRoundTripVerbatim ==
    AddJustSucceeded =>
        \A list \in ReadsNow :
            \E i \in DOMAIN list :
                /\ list[i].id = last.client[1].id
                /\ CarriesVerbatim(list[i], last.input)

\* an input with padded name and password, an upper-case email and plan and
\* status in another case has just been added
C12_Witness ==
    /\ AddJustSucceeded
    /\ last.input.email = EmailAUpper
    /\ last.input.password = <<"q"," ">>
    /\ RowOf(table, last.client[1].id) # {}

\* this step is the return of an updateClient call that has not got as far
\* as its UPDATE statement
UpdateReturnsBeforeUpdate ==
    /\ variant = "db"
    /\ last'.op = "update"
    /\ \/ calls' = calls + 1 /\ dproc' = dproc
       \/ \E p \in DbProcs :
             dproc[p].pc = "ensure" /\ dproc[p].op = "update" /\ dproc'[p].pc = "idle"

\* no row of the table has this id
NoRowWithId(id) == \A r \in table : r.id # id

\* C13: an updateClient call whose (non-blank) id is the id of no stored
\* record when the call looks it up fails with "Client not found.", never
\* reaches its UPDATE statement, and leaves the table as it was.
C13_UpdateUnknownId ==
    [][/\ ( /\ UpdateReturnsBeforeUpdate
            /\ last'.input.id # 0
            /\ NoRowWithId(last'.input.id) )
          => last'.error = NotFound /\ table' = table
       /\ \A p \in DbProcs :
             ( /\ variant = "db"
               /\ dproc[p].pc # "updating"
               /\ dproc'[p].pc = "updating" )
             => ~NoRowWithId(dproc'[p].input.id)]_vars

\* the store holds a record and an update naming another id has just failed
C13_Witness ==
    /\ variant = "db"
    /\ last.op = "update"
    /\ last.error = NotFound
    /\ table # {}
    /\ NoRowWithId(last.input.id)

\* another record than the one named has this email, ignoring case
OtherRecordHasEmail(id, email) ==
    \E r \in table : r.id # id /\ NormEmail(r.email) = NormEmail(email)

\* C14: when an updateClient call with otherwise valid input reaches its
\* UPDATE with an email that, ignoring case and surrounding white space, is
\* the email of a different record, it fails with "A client with this email
\* already exists." and no row changes; when no different record has that
\* email, in particular when it is the record's own email, the call is not
\* refused as a duplicate.
C14_UpdateEmailCollision ==
    [][\A p \in DbProcs :
          ( /\ variant = "db"
            /\ dproc[p].pc = "updating"
            /\ dproc'[p].pc = "idle"
            /\ typeofString(dproc[p].input.email)
            /\ ~NoRowWithId(dproc[p].input.id) )
          => IF OtherRecordHasEmail(dproc[p].input.id, dproc[p].input.email)
             THEN last'.error = DuplicateEmail /\ table' = table
             ELSE /\ last'.error = ""
                  /\ \E r \in table' :
                        /\ r.id = dproc[p].input.id
                        /\ r.email = NormEmail(dproc[p].input.email)]_vars

\* next to another record, an update to that record's email in upper case
\* has just been refused
C14_Witness ==
    /\ variant = "db"
    /\ last.op = "update"
    /\ last.error = DuplicateEmail
    /\ last.input.email = EmailBUpper
    /\ Cardinality(table) = 2
    /\ \E r \in table : r.id # last.input.id /\ r.email = EmailB

\* a required field of the input is absent, blank, or an email of the wrong
\* shape
RequiredFieldInvalid(input) ==
    \/ ~IsString(input.name) \/ trim(input.name) = <<>>
    \/ ~IsString(input.email) \/ trim(input.email) = <<>>
    \/ ~MatchesEmailPattern(NormEmail(input.email))
    \/ ~IsString(input.password) \/ trim(input.password) = <<>>

ValidationErrors == {NameRequired, EmailRequired, PasswordRequired}

\* this step is the return of an addClient call, in either variant
AddReturns ==
    /\ last'.op = "add"
    /\ \/ calls' = calls + 1 /\ dproc' = dproc /\ fproc' = fproc
       \/ \E p \in DbProcs : dproc[p].pc # "idle" /\ dproc'[p].pc = "idle"
       \/ \E p \in FileProcs :
             fproc[p].pc # "idle" /\ fproc'[p].pc = "idle" /\ last' = fproc[p].res
       \/ FileCompletesUnwritten("add")

\* C15: addClient fails with one of its validation errors, and writes
\* nothing, whenever the name is absent or empty after trimming, the email is
\* absent, empty or not of the mailbox shape, or the password is absent or
\* blank after trimming.
C15_AddValidation ==
    [][(AddReturns /\ RequiredFieldInvalid(last'.input))
         => /\ last'.error \in ValidationErrors
            /\ table' = table
            /\ file' = file]_vars

PlanSet == {PLAN_OPTIONS[k] : k \in DOMAIN PLAN_OPTIONS}
StatusSet == {STATUS_OPTIONS[k] : k \in DOMAIN STATUS_OPTIONS}

\* the record has one of the plans and one of the statuses
ValidPlanStatus(rec) == rec.plan \in PlanSet /\ rec.status \in StatusSet

\* values a plan or status field of a record written by an older version or
\* by hand may hold
LegacyValues ==
    {UNDEF, NULL, <<>>, <<"x">>, <<" ","c","u","s","t","o","m">>,
     <<"T","r","i","a","l">>, <<"p","e","n","d","i","n","g"," ">>}

\* a record of the JSON document with its plan and status replaced by such a
\* value
LegacyItem(item, v) == [item EXCEPT !.plan = v, !.status = v]

\* C16: in every reachable state every persisted record (table row, record
\* of the JSON document) and every record a call has returned has a plan in
\* {Starter, Growth, Enterprise, Custom} and a status in {Active, Pending,
\* Trial, Churn Risk, Offboarded}; the record add returns has the option its
\* input stands for (trimmed, ignoring case), Starter / Pending when the
\* input has none or an unrecognised one; the record update returns has the
\* option a supplied value stands for, Starter / Pending when the supplied
\* value is unrecognised; and a read of the JSON document maps whatever plan
\* and status a record in it holds to the option it stands for.
C16_PlanStatusNormalised ==
    /\ \A i \in DOMAIN file.items, v \in LegacyValues :
          LET read == normalizeClient(LegacyItem(file.items[i], v), 0)
          IN  /\ Len(read) = 1
              /\ read[1].plan = OptionFor(PLAN_OPTIONS, Starter, v)
              /\ read[1].status = OptionFor(STATUS_OPTIONS, Pending, v)
              /\ ValidPlanStatus(read[1])
    /\ \A r \in table : ValidPlanStatus(r)
    /\ file.kind = "json" => \A i \in DOMAIN file.items : ValidPlanStatus(file.items[i])
    /\ \A i \in DOMAIN last.list : ValidPlanStatus(last.list[i])
    /\ \A i \in DOMAIN last.client : ValidPlanStatus(last.client[i])
    /\ (last.op = "add" /\ Len(last.client) = 1) =>
          /\ last.client[1].plan = OptionFor(PLAN_OPTIONS, Starter, last.input.plan)
          /\ last.client[1].status =
                 OptionFor(STATUS_OPTIONS, Pending, last.input.status)
    /\ (last.op = "update" /\ Len(last.client) = 1) =>
          /\ IsString(last.input.plan) =>
                last.client[1].plan = OptionFor(PLAN_OPTIONS, Starter, last.input.plan)
          /\ IsString(last.input.status) =>
                last.client[1].status =
                    OptionFor(STATUS_OPTIONS, Pending, last.input.status)

\* a record added with plan "growth " and status "TRIAL" is stored as Trial
\* and, after an update with plan "custom", as Custom
C16_Witness ==
    /\ variant = "db"
    /\ last.op = "update"
    /\ last.error = ""
    /\ last.input.plan = <<"c","u","s","t","o","m">>
    /\ \E r \in table :
          /\ r.id = last.input.id
          /\ r.plan = PLAN_OPTIONS[4]
          /\ r.status = STATUS_OPTIONS[3]

\* C17: a record keeps its id and its createdAt from its creation to its
\* removal, whatever updates are made; add sets createdAt and updatedAt to
\* the one instant it read the clock; a successful update sets updatedAt to
\* the instant that call read the clock.
C17_IdCreatedAtImmutable ==
    [][/\ \A r \in table, s \in table' : r.id = s.id => s.created_at = r.created_at
       /\ \A s \in table' \ table :
             NoRowWithId(s.id) =>
                 /\ s.created_at = clock'
                 /\ s.updated_at = clock'
                 /\ last'.op = "add"
                 /\ Len(last'.client) = 1
                 /\ last'.client[1].id = s.id
                 /\ last'.client[1].createdAt = clock'
                 /\ last'.client[1].updatedAt = clock'
       /\ \A p \in DbProcs :
             (variant = "db" /\ dproc[p].pc # "updating" /\ dproc'[p].pc = "updating")
             => dproc'[p].pending.updated_at = clock'
       /\ \A p \in DbProcs :
             ( /\ variant = "db"
               /\ dproc[p].pc = "updating"
               /\ dproc'[p].pc = "idle"
               /\ last'.error = "" )
             => /\ {s.id : s \in table'} = {r.id : r \in table}
                /\ Len(last'.client) = 1
                /\ last'.client[1].id = dproc[p].input.id
                /\ last'.client[1].updatedAt = dproc[p].pending.updated_at
                /\ \A r \in RowOf(table, dproc[p].input.id) :
                      last'.client[1].createdAt = r.created_at
                /\ \A s \in RowOf(table', dproc[p].input.id) :
                      s.updated_at = dproc[p].pending.updated_at
       /\ (file.kind = "json" /\ file'.kind = "json") =>
             \A i \in DOMAIN file.items, j \in DOMAIN file'.items :
                 file.items[i].id = file'.items[j].id =>
                     file'.items[j].createdAt = file.items[i].createdAt
       /\ \A p \in FileProcs :
             ( /\ variant = "file"
               /\ fproc[p].pc \in {"idle", "read"}
               /\ fproc'[p].pc = "write_open"
               /\ fproc'[p].op = "add" )
             => /\ fproc'[p].res.client[1].createdAt = clock'
                /\ fproc'[p].res.client[1].updatedAt = clock'
                /\ fproc'[p].wbuf[1] = fproc'[p].res.client[1]]_vars

\* a record created at instant 0 has been updated at instant 1
C17_Witness ==
    /\ variant = "db"
    /\ last.op = "update"
    /\ last.error = ""
    /\ Len(last.client) = 1
    /\ last.client[1].createdAt = 0
    /\ last.client[1].updatedAt = 1
    /\ \E r \in table :
          r.id = last.client[1].id /\ r.created_at = 0 /\ r.updated_at = 1

\* C18: the list readClients returns is ordered by createdAt, newest first:
\* of two adjacent records the first is not older than the second, in the
\* database variant and in the file variant.
C18_ReadNewestFirst ==
    last.op = "read" =>
        \A i \in DOMAIN last.list :
            i < Len(last.list) => last.list[i].createdAt >= last.list[i + 1].createdAt

\* a read has returned two records created at different instants
C18_Witness ==
    /\ last.op = "read"
    /\ Len(last.list) = 2
    /\ last.list[1].createdAt > last.list[2].createdAt

\* C19: with the passphrase missing or blank, every store operation that
\* gets as far as needing the key fails with the configuration error: a
\* readClients on a table that holds a record, an addClient whose input is
\* valid, an updateClient whose input names a stored record and is valid.
C19_MissingKeyFatal ==
    (variant = "db" /\ envSecret \in MissingSecrets) =>
        /\ (last.op = "read" /\ table # {}) => last.error = ConfigError
        /\ (last.op = "add" /\ AddValidation(last.input) = "") =>
               last.error = ConfigError
        /\ ( /\ last.op = "update"
             /\ last.error \notin {IdRequired, NotFound, NameRequired,
                                   EmailRequired, EmptyPassword} )
           => last.error = ConfigError

\* exactly three components, none of them empty
ThreeComponents(payload) ==
    /\ Len(split(payload, ".")) = 3
    /\ \A k \in 1 .. 3 : split(payload, ".")[k] # <<>>

\* C20: decryptSecret fails with "Invalid encrypted payload." and returns no
\* plaintext for every payload that is not exactly three non-empty
\* components separated by ".": fewer than three, more than three, or an
\* empty component.
C20_MalformedPayloadRejected ==
    (cipher.stage = "opened" /\ ~ThreeComponents(cipher.payload)) =>
        /\ ~cipher.ok
        /\ cipher.error = InvalidPayload
        /\ cipher.value = <<>>

HoldsExclusively(p) ==
    /\ InReadModifyWrite(p)
    /\ \A q \in FileProcs \ {p} : ~InReadModifyWrite(q)

\* request p finishes the write of its document and returns
CompletesWrite(p) ==
    /\ variant = "file"
    /\ fproc[p].pc = "write_data"
    /\ fproc'[p].pc = "idle"
    /\ fhist'.crashes = fhist.crashes

\* request p has read the document and goes on to write its replacement
EntersWrite(p) ==
    /\ variant = "file"
    /\ fproc[p].pc = "read"
    /\ fproc'[p].pc = "write_open"

\* C22: every file-variant mutation ends in one of two ways: it completes its
\* write as the holder of the lock, no other request being between its read
\* and its write, or it fails with the storage-unavailable error.
C22_CompletesAsLockHolder ==
    [][\A p \in FileProcs : CompletesWrite(p) => HoldsExclusively(p)]_vars

\* C23: after a writer has died in the middle of its write, the next writer
\* acquires the lock: when it goes on to write, it holds the store to itself.
C23_NextWriterAcquiresLock ==
    [][\A p \in FileProcs :
          (fhist.crashes > 0 /\ EntersWrite(p)) =>
              \A q \in FileProcs \ {p} : ~InReadModifyWrite(q)]_vars

\* C24: within one process every successful getEncryptionKey call returns
\* the same key: the key is derived at most once, the calls after that
\* return the memoized key whatever the configuration has become, and as
\* long as no call has succeeded nothing is memoized.
C24_OneKeyPerProcess ==
    variant = "keys" =>
        /\ \A i, j \in DOMAIN cipher.returned :
               cipher.returned[i].key = cipher.returned[j].key
        /\ cipher.derived <= 1
        /\ cipher.returned = <<>> => memoizedKey = <<>>
        /\ cipher.returned # <<>> => memoizedKey = <<cipher.returned[1].key>>

\* a call failed for want of a passphrase, a later call derived the key, and
\* a call after a change of passphrase returned the memoized key, not the
\* key of the passphrase configured by then
C24_Witness ==
    /\ variant = "keys"
    /\ cipher.failed > 0
    /\ Len(cipher.returned) >= 2
    /\ cipher.returned[2].secret # cipher.returned[1].secret
    /\ cipher.returned[2].secret \in Passphrases
    /\ sha256(cipher.returned[2].secret) # cipher.returned[2].key
    /\ cipher.returned[2].key = cipher.returned[1].key

\* the errors of a request that is itself at fault
InvalidRequestErrors ==
    {NameRequired, EmailRequired, PasswordRequired, IdRequired, EmptyPassword,
     DuplicateEmail}

\* the errors of the storage, the connection and the cipher
UnexpectedErrors ==
    {ConfigError, InvalidPayload, AuthError, UnableToSave, UnableToUpdate,
     TypeErrorUndefinedRow}

\* C25: every request to the client routes is answered with 400 or 422 when
\* it fails validation, with 404 when the record is missing, and with 500
\* when the store call fails with an unexpected error.
C25_StatusByErrorClass ==
    last.op # "none" =>
        /\ last.error \in InvalidRequestErrors => RouteStatus(last) \in {400, 422}
        /\ (last.error = NotFound \/ (last.op = "remove" /\ last.error = "" /\ ~last.removed))
               => RouteStatus(last) = 404
        /\ last.error \in UnexpectedErrors => RouteStatus(last) = 500

\* C26: the dashboard never edits a client that a delete response has taken
\* off its list: when a delete response with removed = true is handled for
\* the client being edited, the edit session is cancelled, so editingId is
\* null or names a listed client, and the form holds no removed client.
C26_NeverEditingRemoved ==
    variant = "dashboard" =>
        /\ dash.editingId # NoId => dash.editingId \in dash.clients
        /\ dash.form # NoId => dash.form \in dash.clients

\* how far the one creation attempt has come
PromiseRank(promise) ==
    CASE promise = "null" -> 0
      [] promise = "pending" -> 1
      [] promise = "indexing" -> 2
      [] OTHER -> 3

\* this step of the database variant sends a query of a store operation, or
\* returns what such a query gave
IssuesQuery ==
    /\ variant = "db"
    /\ \/ table' # table
       \/ \E p \in DbProcs : dproc[p].pc # "updating" /\ dproc'[p].pc = "updating"
       \/ /\ last' # last
          /\ last'.error # DatabaseError
          /\ ~(last'.op = "add" /\ last'.error \in ValidationErrors \cup {TypeErrorTrim})
          /\ ~(last'.op = "update" /\ last'.error = IdRequired)

\* C27: in the database variant the table and the index are created in one
\* attempt per process: it starts once, each CREATE statement runs at most
\* once, and once settled the promise stays as it is, however many
\* operations start meanwhile; an operation sends its own query only when
\* that attempt has completed successfully.
C27_OneSchemaAttempt ==
    [][/\ PromiseRank(ensureTablePromise') >= PromiseRank(ensureTablePromise)
       /\ schema' # schema =>
              PromiseRank(ensureTablePromise') = PromiseRank(ensureTablePromise) + 1
       /\ ensureTablePromise \in {"resolved", "rejected"} =>
              ensureTablePromise' = ensureTablePromise
       /\ IssuesQuery => (ensureTablePromise = "resolved" /\ schema = "indexed")]_vars

\* two operations have started; the creation has completed; the one that
\* started it is about to resume from its await, and the other has sent its
\* query and returned
C27_Witness ==
    /\ variant = "db"
    /\ ensureTablePromise = "resolved"
    /\ dproc["d1"].pc = "ensure"
    /\ dproc["d2"].pc = "idle"
    /\ calls = 2
    /\ last.op # "none"
    /\ last.error = ""

\* C28: concurrent updateClient calls on one record are serialized: the row
\* an UPDATE leaves is the update applied to the row as it was just before
\* that UPDATE, so a field this update does not supply keeps the value the
\* row had then, in particular a value another update has written since
\* this one read the row.
C28_ConcurrentUpdatesSerialized ==
    [][\A p \in DbProcs :
          ( /\ variant = "db"
            /\ dproc[p].pc = "updating"
            /\ dproc'[p].pc = "idle"
            /\ last'.error = "" )
          => LET input == dproc[p].input
             IN  \A c \in RowOf(table, input.id), r \in RowOf(table', input.id) :
                    /\ ~typeofString(input.name) => r.name = c.name
                    /\ ~typeofString(input.email) => r.email = c.email
                    /\ ~typeofString(input.company) => r.company = c.company
                    /\ ~typeofString(input.phone) => r.phone = c.phone
                    /\ ~typeofString(input.notes) => r.notes = c.notes
                    /\ ~typeofString(input.password) =>
                           r.password_ciphertext = c.password_ciphertext
                    /\ ~IsString(input.plan) => r.plan = c.plan
                    /\ ~IsString(input.status) => r.status = c.status]_vars

\* C29: an updateClient call whose record a removeClient deletes while the
\* update is between its SELECT and its UPDATE fails with the not-found
\* error, and the removed row stays removed.
C29_UpdateOfRemovedIsNotFound ==
    [][\A p \in DbProcs :
          ( /\ variant = "db"
            /\ dproc[p].pc = "updating"
            /\ dproc'[p].pc = "idle"
            /\ RowOf(table, dproc[p].input.id) = {} )
          => /\ last'.error = NotFound
             /\ RowOf(table', dproc[p].input.id) = {}]_vars

\* the document holds an element with the id and the email of e
Kept(e) ==
    \E i \in DOMAIN file.items :
        file.items[i].id = e.id /\ file.items[i].email = e.email

\* C30: in the file variant, when a single addClient or removeClient has
\* succeeded and left a complete document, every element the document held
\* before the call, other than the one removed by id, is still in it:
\* also an element the read skipped as invalid, also when the document
\* could not be parsed.
C30_OtherElementsKept ==
    ( /\ variant = "file"
      /\ calls = 1
      /\ \A p \in FileProcs : fproc[p].pc = "idle"
      /\ fhist.crashes = 0
      /\ fhist.added # {} \/ fhist.removed # {}
      /\ file.kind = "json" )
    => \A k \in DOMAIN LegacyItems :
           LegacyItems[k].id \notin fhist.removed => Kept(LegacyItems[k])

====
